---- MODULE Spec2Model ----
(***************************************************************************)
(* Request dispatch of Rocket<Orbit> (core/lib/src/lifecycle.rs): routing  *)
(* with forwarding, automatic HEAD handling, catcher escalation and        *)
(* response finalization, for several requests dispatched concurrently     *)
(* over one immutable route table and one immutable catcher table.         *)
(*                                                                         *)
(* Route and catcher handlers are application code: what a handler does    *)
(* when it is invoked (succeed, fail, forward, panic, add a cookie) is     *)
(* drawn nondeterministically at the invocation.                           *)
(***************************************************************************)
EXTENDS Integers, Sequences, FiniteSets, TLC

\* ---------------------------------------------------------------- bounds
MaxRoutes == 2          \* routes in the route table
MaxTasks == 2           \* requests dispatched concurrently

\* ------------------------------------------------------- program constants
Ok == 200
NoContent == 204
NotModified == 304
Forbidden == 403
NotFound == 404
InternalServerError == 500
BodyLen == 4            \* the size of the body a handler answers with
PeekLen == 32           \* the bytes of the body preprocess peeks at
SwitchingProtocols == 101
ServiceUnavailable == 503

\* ----------------------------------------------------------------- values
NoSize == -1            \* Option::None for a body size or a Content-Length
NoRoute == 0            \* the request's route slot before any route is attached
Default == 0            \* the code of a default (status-less) catcher
NoCatcher == -1         \* router.catch found nothing
NoIdent == "none"       \* Ident::none(): the server does not identify itself

Tasks == 1 .. MaxTasks
RouteMethods == {"GET", "HEAD"}
Ranks == {1, 2}
RequestMethods == {"GET", "HEAD"}
NoContentType == "none" \* a request without a Content-Type
CatcherCodes == {NotFound, InternalServerError, Default}

ResponseStatuses == {Ok, NoContent, NotModified, InternalServerError}
ForwardStatuses == {NotFound, Forbidden}
ErrorStatuses == {Forbidden}

RouteCookie == "a"      \* the cookie a route handler may add to the jar
CatcherCookie == "c"    \* the cookie a catcher handler may add to the jar
FairingCookie == "f"    \* the cookie a response fairing may add to the jar

\* ---------------------------------------------------------------- Outcome
Success(resp) == [kind |-> "Success", response |-> resp]
Error(s) == [kind |-> "Error", status |-> s]
Forward(s) == [kind |-> "Forward", status |-> s]

\* ---------------------------------------------------------------- Response
Sized(n) == [data |-> "bytes", size |-> n]
Streamed == [data |-> "stream", size |-> NoSize]
unsized_none == [data |-> "none", size |-> NoSize]
strip_body(resp) == [resp EXCEPT !.body.data = "none"]

\* Headers other than Set-Cookie and Content-Length: a set of [name, value],
\* one value per name.
Header(n, v) == [name |-> n, value |-> v]
contains(hs, n) == \E h \in hs : h.name = n
set_header(resp, n, v) ==
    [resp EXCEPT !.headers = {h \in @ : h.name # n} \cup {Header(n, v)}]

\* The Content-Length values the application wrote on a response.
OwnLengths(resp) == {h \in resp.headers : h.name = "Content-Length"}

\* A response as a handler builds it: `upgrade` holds the protocols it
\* registered an I/O handler for.
NewResponse(s, b) ==
    [status |-> s, body |-> b, content_length |-> NoSize, set_cookie |-> {},
     headers |-> {}, upgrade |-> {}]

Bodies == {Sized(BodyLen), Streamed}
HandlerResponses == {NewResponse(s, b) : s \in ResponseStatuses, b \in Bodies}

default_handler(s) == NewResponse(s, Sized(1))

\* ------------------------------------------------------------------ state
VARIABLES
    routes,     \* the route table: a sequence of [method, rank], in registration order
    catchers,   \* the catcher table: the set of codes a catcher is registered for
    handlers,   \* what the application's handlers and fairings may do: "any", "plain" or "rich"
    config,     \* the server's configuration: its identity and its Alt-Svc advertisement
    request,    \* per task, the Request: method, attached route, cookie jar delta
    task,       \* per task, the locals of dispatch / route / dispatch_error
    log,        \* per task, the handler invocations made so far (history)
    launch,     \* Error::report: the result reported, the exit code, what was logged
    files,      \* FileServer::handle: the server, the request, the rewrite so far, the outcome
    pool        \* ConnectionPool: the semaphore, the r2d2 pool, and per client its Connection

\* What is no part of the dispatch of a request.
outside == <<launch, files, pool>>

vars == <<routes, catchers, handlers, config, request, task, log, outside>>

\* No result of a launch has been given to Error::report.
NoLaunch == [pc |-> "none", result |-> [ok |-> TRUE, phase |-> "Build"],
             exit |-> "none", trace |-> <<>>]

\* No FileServer is mounted.
NoFiles == [pc |-> "none", rewrites |-> <<>>, uri |-> [segments |-> <<>>, slash |-> FALSE, valid |-> TRUE],
            i |-> 0, response |-> [some |-> FALSE], outcome |-> [kind |-> "none"]]

\* No database fairing is attached.
NoPool == [size |-> 0, timeout |-> 0, permits |-> 0, checked_out |-> 0, client |-> <<>>]

\* Nothing but the dispatch of requests is going on.
OutsideIdle == launch = NoLaunch /\ files = NoFiles /\ pool = NoPool

Routes == [method : RouteMethods, rank : Ranks]

RECURSIVE SeqsUpTo(_, _)
SeqsUpTo(S, n) ==
    IF n = 0 THEN {<<>>}
    ELSE LET shorter == SeqsUpTo(S, n - 1)
         IN  shorter \cup {Append(q, x) : q \in {p \in shorter : Len(p) = n - 1}, x \in S}

\* ------------------------------------------------------------------ Router
\* The routes whose method is that of the request, in ascending rank order,
\* routes of equal rank in registration order.
Ranked(m, k) ==
    SelectSeq([i \in 1 .. Len(routes) |-> i],
              LAMBDA i : routes[i].method = m /\ routes[i].rank = k)

\* A router that tries the routes of higher rank first.
Router_route_descending(m) == Ranked(m, 2) \o Ranked(m, 1)
Router_route(m) == Ranked(m, 1) \o Ranked(m, 2)

\* The catcher registered for the status, else the default catcher, else none.
Router_catch(s) ==
    IF s \in catchers /\ s # Default THEN s
    ELSE IF Default \in catchers THEN Default
    ELSE NoCatcher

\* -------------------------------------------------------------- cookie jar
add_cookie(req, c) == [req EXCEPT !.cookies = @ \cup {c}]
reset_delta(req) == [req EXCEPT !.cookies = {}]

\* -------------------------------------------------------------- catch_handle
\* What a guarded handler invocation does: `panic` says whether and when the
\* handler panics, `value` is what its future resolves to otherwise.
None == [some |-> FALSE]
Some(v) == [some |-> TRUE, value |-> v]

catch_handle(panic, value) ==
    IF panic = "setup" THEN None
    ELSE IF panic = "poll" THEN None
    ELSE Some(value)

unwrap_or(opt, dflt) == IF opt.some THEN opt.value ELSE dflt

\* --------------------------------------------------------------- the body
\* The body's bytes: one-character strings for ASCII, "C3" and "A9" for the
\* two bytes of a two-byte UTF-8 character, "FF" for a byte no UTF-8 text has.
Min(a, b) == IF a <= b THEN a ELSE b

\* Data::peek(n): the first n bytes of the body, or all of it when shorter.
peek(data, n) == SubSeq(data, 1, Min(n, Len(data)))

\* std::str::from_utf8: the text, unless the bytes are not UTF-8.
RECURSIVE is_utf8(_)
is_utf8(bytes) ==
    IF bytes = <<>> THEN TRUE
    ELSE IF Head(bytes) \in {"FF", "A9"} THEN FALSE
    ELSE IF Head(bytes) = "C3"
         THEN Len(bytes) >= 2 /\ bytes[2] = "A9" /\ is_utf8(Tail(Tail(bytes)))
    ELSE is_utf8(Tail(bytes))

from_utf8(bytes) == IF is_utf8(bytes) THEN Some(bytes) ELSE None

\* The text up to the first c, and the text after it.
RECURSIVE find(_, _, _)
find(text, c, i) ==
    IF i > Len(text) \/ text[i] = c THEN i ELSE find(text, c, i + 1)

split_at_byte(text, c) ==
    LET i == find(text, c, 1)
    IN  <<SubSeq(text, 1, i - 1), SubSeq(text, i + 1, Len(text))>>

\* Form::values(raw).next(): the first field of the form that is not empty,
\* split at its first '='.
RECURSIVE Form_values_next(_)
Form_values_next(raw) ==
    IF raw = <<>> THEN None
    ELSE LET parts == split_at_byte(raw, "&")
         IN  IF parts[1] # <<>>
             THEN LET nv == split_at_byte(parts[1], "=")
                  IN  Some([name |-> nv[1], value |-> nv[2]])
             ELSE Form_values_next(parts[2])

Text_method == <<"_", "m", "e", "t", "h", "o", "d">>
Text_PUT == <<"P", "U", "T">>
Text_HEAD == <<"H", "E", "A", "D">>
Text_GET == <<"G", "E", "T">>
Text_BOGUS == <<"B", "O", "G", "U", "S">>

\* str::parse::<Method>(): the method the text names, if any.
Method_parse(text) ==
    IF text = Text_PUT THEN Some("PUT")
    ELSE IF text = Text_HEAD THEN Some("HEAD")
    ELSE IF text = Text_GET THEN Some("GET")
    ELSE None

\* Option::and_then and Option::filter for the chain in preprocess.
form_field(text_opt) ==
    IF text_opt.some THEN Form_values_next(text_opt.value) ELSE None
named_method(field_opt) ==
    IF field_opt.some /\ field_opt.value.name = Text_method THEN field_opt ELSE None
parsed_value(field_opt) ==
    IF field_opt.some THEN Method_parse(field_opt.value.value) ELSE None

is_form(ct) == ct = "form"

\* ----------------------------------------------------------------- upgrades
UpgradeOk(v) == [ok |-> TRUE, value |-> v]
UpgradeErr == [ok |-> FALSE]

\* Response::search_upgrades: the first protocol the request asks for that
\* the response has an I/O handler for; an error when it asks for protocols
\* and the response has handlers but none of them.
search_upgrades(resp, protocols) ==
    IF resp.upgrade = {} THEN UpgradeOk(None)
    ELSE IF protocols \cap resp.upgrade # {}
         THEN UpgradeOk(Some(CHOOSE proto \in protocols \cap resp.upgrade : TRUE))
    ELSE IF protocols # {} THEN UpgradeErr
    ELSE UpgradeOk(None)

\* ------------------------------------------------------- handler behaviours
\* An application whose handlers are "plain" has one behaviour of each kind
\* (succeed, fail, forward, panic) and fairings that leave responses alone;
\* otherwise a handler may do anything listed below.
Concurrent == \E r \in Tasks : r > 1 /\ task[r].pc # "unused"

\* What a handler of a "rich" application may put in a response besides a
\* status and a body: headers of its own, and an I/O handler for a protocol.
\* A handler may also set a Content-Length of its own, which need not be the
\* size of the body it supplies.
OwnLength == "9"
HandlerHeaders ==
    {{}, {Header("Server", "app"), Header("ETag", "v1")},
     {Header("Content-Length", OwnLength)}}
RichResponses ==
    {[NewResponse(s, b) EXCEPT !.headers = h, !.upgrade = u] :
        s \in ResponseStatuses \cup {Forbidden}, b \in Bodies,
        h \in HandlerHeaders, u \in {{}, {"websocket"}}}

SuccessResponses == IF handlers = "rich" THEN RichResponses ELSE HandlerResponses
CatcherHeaders == IF handlers = "rich" THEN HandlerHeaders ELSE {{}}

RouteOutcomes ==
    {Success(resp) : resp \in SuccessResponses}
        \cup {Error(s) : s \in ErrorStatuses}
        \cup {Forward(s) : s \in ForwardStatuses}

PlainRouteOutcomes ==
    {Success(NewResponse(Ok, Sized(BodyLen))), Error(Forbidden), Forward(NotFound)}

\* What polling a route handler's future can do: panic, or resolve to an
\* Outcome; either way it may have added a cookie to the jar first.
RoutePolls ==
    IF handlers = "plain"
    THEN {[panic |-> "poll", cookie |-> TRUE, value |-> Error(InternalServerError)]}
            \cup {[panic |-> "none", cookie |-> (o.kind = "Forward"), value |-> o] :
                      o \in PlainRouteOutcomes}
    ELSE {[panic |-> "poll", cookie |-> c, value |-> Error(InternalServerError)] :
             c \in BOOLEAN}
            \cup {[panic |-> "none", cookie |-> c, value |-> o] :
                      c \in BOOLEAN, o \in RouteOutcomes}

CatchOk(resp) == [ok |-> TRUE, response |-> resp]
CatchErr == [ok |-> FALSE]

\* A catcher that ran to its end and failed, with the status it failed with.
CatchFailed(s) == [ok |-> FALSE, status |-> s]
failed_status(res, dflt) == IF "status" \in DOMAIN res THEN res.status ELSE dflt

\* A catcher invoked for status s answers with that status unless it sets another.
CatcherResults(s) ==
    {CatchOk([NewResponse(t, Sized(BodyLen)) EXCEPT !.headers = h]) :
        t \in {s, NoContent}, h \in CatcherHeaders}
      \cup {CatchErr, CatchFailed(Forbidden)}

CatcherPolls(s) ==
    IF handlers = "plain"
    THEN {[panic |-> "poll", cookie |-> FALSE, value |-> CatchErr],
          [panic |-> "none", cookie |-> FALSE, value |-> CatchErr],
          [panic |-> "none", cookie |-> TRUE, value |-> CatchOk(NewResponse(s, Sized(BodyLen)))]}
    ELSE {[panic |-> "poll", cookie |-> c, value |-> CatchErr] : c \in BOOLEAN}
            \cup {[panic |-> "none", cookie |-> c, value |-> v] :
                      c \in BOOLEAN, v \in CatcherResults(s)}

\* A guard that takes a panic for a forward.
guarded_outcome_forwards(opt) == unwrap_or(opt, Forward(InternalServerError))

\* A guard that takes a panic for a missing route.
guarded_outcome_not_found(opt) == unwrap_or(opt, Error(NotFound))

\* route(): the outcome of a guarded route handler.
guarded_outcome(opt) == unwrap_or(opt, Error(InternalServerError))

\* invoke_catcher(): the result of a guarded catcher handler.
guarded_result(opt) == unwrap_or(opt, CatchErr)

\* What the response fairings do to the response.
FairingEffects ==
    IF handlers = "plain" THEN {"none"}
    ELSE IF handlers = "rich"
         THEN {"none", "set_status", "set_body", "set_header", "add_cookie", "set_length"}
    ELSE {"none", "set_status", "set_body"}

handle_response(f, resp) ==
    IF f = "set_status" THEN [resp EXCEPT !.status = Ok]
    ELSE IF f = "set_body" THEN [resp EXCEPT !.body = Sized(1)]
    ELSE IF f = "set_header" THEN set_header(resp, "Server", "fairing")
    ELSE IF f = "set_length" THEN set_header(resp, "Content-Length", OwnLength)
    ELSE resp

\* What the response fairings do to the request they are given: its jar is
\* theirs to add to.
handle_response_jar(f, req) ==
    IF f = "add_cookie" THEN add_cookie(req, FairingCookie) ELSE req

\* What the request fairings do to the request.
RequestFairingEffects == IF handlers = "rich" THEN {"none", "set_method"} ELSE {"none"}

handle_request(f, req) ==
    IF f = "set_method" THEN [req EXCEPT !.method = "GET"] ELSE req

\* ------------------------------------------------------------------- Init
\* A request as the connection layer hands it over: no route attached, an
\* empty cookie delta, no Content-Type and no Upgrade header.
NewRequest(m) ==
    [method |-> m, route |-> NoRoute, cookies |-> {},
     content_type |-> NoContentType, upgrade |-> {}]

\* What preprocess has run so far for a request that has been through it.
Preprocessed == <<"method_override", "request_fairings">>

NewTask(started) ==
    [pc |-> IF started THEN "dispatch" ELSE "unused",
     token |-> started,
     pre |-> IF started THEN Preprocessed ELSE <<>>,
     data |-> <<>>,
     io_handler |-> "none",
     was_head_request |-> FALSE,
     pass |-> 0,
     candidates |-> <<>>,
     status |-> NotFound,
     catcher |-> NoCatcher,
     lookups |-> 0,
     last |-> [result |-> "none", status |-> NotFound, cookie |-> FALSE],
     source |-> "none",
     fairing |-> "none",
     steps |-> <<>>,
     body |-> None,
     given |-> None,
     returned |-> None,
     obtained |-> default_handler(NotFound),
     response |-> default_handler(NotFound)]

\* Config::default(): the server identifies itself as Rocket and advertises
\* no alternative service.
DefaultConfig == [ident |-> "Rocket", alt_svc |-> FALSE]

\* The tables several requests in flight are dispatched over.
SharedRoutes == <<[method |-> "GET", rank |-> 1]>>
SharedCatchers == {InternalServerError}

\* n requests in flight. The tasks being interchangeable, HEAD requests come
\* first.
Launch(n) ==
    /\ task = [r \in Tasks |-> NewTask(r <= n)]
    /\ routes \in IF n = 1 THEN SeqsUpTo(Routes, MaxRoutes) ELSE {<<>>, SharedRoutes}
    /\ catchers \in SUBSET (IF n = 1 THEN CatcherCodes ELSE SharedCatchers)
    /\ request \in [Tasks -> {NewRequest(m) : m \in RequestMethods}]
    /\ \A r \in Tasks : task[r].pc = "unused" => request[r] = NewRequest("GET")
    /\ \A r \in Tasks \ {1} : request[r].method = "HEAD" => request[r - 1].method = "HEAD"
    /\ log = [r \in Tasks |-> <<>>]
    /\ config = DefaultConfig
    /\ OutsideIdle

\* One request and handlers that may do anything, or several requests and
\* plain handlers.
Init == \E n \in Tasks : Launch(n) /\ handlers = IF n = 1 THEN "any" ELSE "plain"

\* Plain handlers, however many requests.
PlainInit == \E n \in Tasks : Launch(n) /\ handlers = "plain"

\* ------------------------------------------------------------- the history
MaxLog == MaxRoutes + 3         \* more invocations than one dispatch can make

\* An invocation: which handler, in which pass of route() and for which
\* method, or for which status of dispatch_error; then how it ended.
Invoked(kind, id, pass, m, s) ==
    [handler |-> kind, id |-> id, pass |-> pass, method |-> m, for |-> s,
     result |-> "pending"]

Resolve(l, result) == [l EXCEPT ![Len(l)].result = result]

\* How the last handler to end ended, with which status, having added a
\* cookie or not.
Ended(result, s, cookie) == [result |-> result, status |-> s, cookie |-> cookie]

\* --------------------------------------------------------------- dispatch
\* One Request behind every task's reference.
store_shared(reqs, r, req) == [q \in DOMAIN reqs |-> req]

\* Each dispatch works on the Request it was given a reference to.
store(reqs, r, req) == [reqs EXCEPT ![r] = req]

\* A slot that keeps the first route attached to it.
set_route_once(req, i) == IF req.route = NoRoute THEN [req EXCEPT !.route = i] ELSE req
set_route(req, i) == [req EXCEPT !.route = i]
set_method(req, m) == [req EXCEPT !.method = m]

\* A pass that starts with the status the pass before it ended with.
route_begin_keeps_status(req, tsk) ==
    [tsk EXCEPT !.pc = "route",
                !.pass = @ + 1,
                !.candidates = Router_route(req.method)]

\* route(): a pass over the candidates for the request's current method.
route_begin(req, tsk) ==
    [tsk EXCEPT !.pc = "route",
                !.pass = @ + 1,
                !.candidates = Router_route(req.method),
                !.status = NotFound]

\* A match that only returns on Success.
route_match_success_only(o) == IF o.kind = "Success" THEN "return" ELSE "continue"

\* route(): the match on a handler's outcome.
route_match(o) == IF o.kind \in {"Success", "Error"} THEN "return" ELSE "continue"

\* A match that reroutes a forward whatever the method.
dispatch_match_any_method(o, m, first) ==
    IF o.kind = "Success" THEN "respond"
    ELSE IF o.kind = "Forward" /\ first THEN "reroute"
    ELSE "dispatch_error"

\* dispatch(): the match on what route() returned; `first` tells the outer
\* match from the one nested in its HEAD arm.
dispatch_match(o, m, first) ==
    IF o.kind = "Success" THEN "respond"
    ELSE IF o.kind = "Forward" /\ first /\ m = "HEAD" THEN "reroute"
    ELSE "dispatch_error"

\* A match without the arm for the failed 500 catcher.
dispatch_error_match_no_last_arm(res, s) == IF res.ok THEN "return" ELSE "retry"

\* A match that gives up after the first catcher.
dispatch_error_match_no_retry(res, s) == IF res.ok THEN "return" ELSE "default"

\* A match whose guard tests for the wrong status.
dispatch_error_match_wrong_guard(res, s) ==
    IF res.ok THEN "return"
    ELSE IF s # NotFound THEN "retry"
    ELSE "default"

\* A match whose guard is inverted: it tries again after the 500 catcher.
dispatch_error_match_inverted_guard(res, s) ==
    IF res.ok THEN "return"
    ELSE IF s = InternalServerError THEN "retry"
    ELSE "default"
\* dispatch_error(): the match on what invoke_catcher returned.
dispatch_error_match(res, s) ==
    IF res.ok THEN "return"
    ELSE IF s # InternalServerError THEN "retry"
    ELSE "default"

\* A dispatch that hands over to the catchers without resetting the delta.
route_returned_keeps_delta(req, tsk, o) ==
    LET arm == dispatch_match(o, req.method, tsk.pass = 1) IN
    IF arm = "respond" THEN
        <<req, [tsk EXCEPT !.pc = "finalize", !.source = "route",
                           !.obtained = o.response, !.response = o.response]>>
    ELSE IF arm = "reroute" THEN
        <<set_method(req, "GET"), route_begin(set_method(req, "GET"), tsk)>>
    ELSE
        <<req, [tsk EXCEPT !.pc = "catch", !.status = o.status]>>

\* A dispatch that resets the delta whatever route() returned.
route_returned_resets_delta(req, tsk, o) ==
    LET arm == dispatch_match(o, req.method, tsk.pass = 1) IN
    IF arm = "respond" THEN
        <<reset_delta(req), [tsk EXCEPT !.pc = "finalize", !.source = "route",
                                        !.obtained = o.response, !.response = o.response]>>
    ELSE IF arm = "reroute" THEN
        <<set_method(req, "GET"), route_begin(set_method(req, "GET"), tsk)>>
    ELSE
        <<reset_delta(req), [tsk EXCEPT !.pc = "catch", !.status = o.status]>>

\* A dispatch whose retry with GET goes on from the HEAD pass's status.
route_returned_retry_keeps_status(req, tsk, o) ==
    LET arm == dispatch_match(o, req.method, tsk.pass = 1) IN
    IF arm = "respond" THEN
        <<req, [tsk EXCEPT !.pc = "finalize", !.source = "route",
                           !.obtained = o.response, !.response = o.response]>>
    ELSE IF arm = "reroute" THEN
        <<set_method(req, "GET"),
          [route_begin(set_method(req, "GET"), tsk) EXCEPT !.status = o.status]>>
    ELSE
        <<reset_delta(req), [tsk EXCEPT !.pc = "catch", !.status = o.status]>>
\* A dispatch that resets the delta before it tries again with GET.
route_returned_retry_resets(req, tsk, o) ==
    LET arm == dispatch_match(o, req.method, tsk.pass = 1) IN
    IF arm = "respond" THEN
        <<req, [tsk EXCEPT !.pc = "finalize", !.source = "route",
                           !.obtained = o.response, !.response = o.response]>>
    ELSE IF arm = "reroute" THEN
        <<reset_delta(set_method(req, "GET")), route_begin(set_method(req, "GET"), tsk)>>
    ELSE
        <<reset_delta(req), [tsk EXCEPT !.pc = "catch", !.status = o.status]>>

\* dispatch(): what happens to the request and the task once route() has
\* returned o.
route_returned(req, tsk, o) ==
    LET arm == dispatch_match(o, req.method, tsk.pass = 1) IN
    IF arm = "respond" THEN
        <<req, [tsk EXCEPT !.pc = "finalize", !.source = "route",
                           !.obtained = o.response, !.response = o.response]>>
    ELSE IF arm = "reroute" THEN
        <<set_method(req, "GET"), route_begin(set_method(req, "GET"), tsk)>>
    ELSE
        <<reset_delta(req), [tsk EXCEPT !.pc = "catch", !.status = o.status]>>

\* An escalation that gives up after the first catcher failed.
catcher_returned_gives_up(tsk, res) ==
    LET arm == dispatch_error_match(res, tsk.status) IN
    IF arm = "return" THEN
        [tsk EXCEPT !.pc = "finalize", !.obtained = res.response, !.response = res.response]
    ELSE
        [tsk EXCEPT !.pc = "finalize", !.source = "default",
                    !.obtained = default_handler(InternalServerError),
                    !.response = default_handler(InternalServerError)]
\* An escalation that goes on with the status the failed catcher returned.
catcher_returned_follows_status(tsk, res) ==
    LET arm == dispatch_error_match(res, tsk.status) IN
    IF arm = "return" THEN
        [tsk EXCEPT !.pc = "finalize", !.obtained = res.response, !.response = res.response]
    ELSE IF arm = "retry" THEN
        [tsk EXCEPT !.pc = "catch", !.status = failed_status(res, InternalServerError)]
    ELSE
        [tsk EXCEPT !.pc = "finalize", !.source = "default",
                    !.obtained = default_handler(InternalServerError),
                    !.response = default_handler(InternalServerError)]
\* dispatch_error(): what happens to the task once invoke_catcher has
\* returned res.
catcher_returned(tsk, res) ==
    LET arm == dispatch_error_match(res, tsk.status) IN
    IF arm = "return" THEN
        [tsk EXCEPT !.pc = "finalize", !.obtained = res.response, !.response = res.response]
    ELSE IF arm = "retry" THEN
        [tsk EXCEPT !.pc = "catch", !.status = InternalServerError]
    ELSE
        [tsk EXCEPT !.pc = "finalize", !.source = "default",
                    !.obtained = default_handler(InternalServerError),
                    !.response = default_handler(InternalServerError)]

\* A finalization that leaves the delta out of the response.
adjoin_cookies_none(resp, delta) == resp

\* dispatch(): the delta of the cookie jar is adjoined to the response.
adjoin_cookies(resp, delta) == [resp EXCEPT !.set_cookie = @ \cup delta]

\* A Server step that overwrites the header the response came with.
default_server_overwrites(resp) ==
    IF config.ident # NoIdent THEN set_header(resp, "Server", config.ident) ELSE resp

\* dispatch(): the default Server header.
default_server(resp) ==
    IF config.ident # NoIdent /\ ~contains(resp.headers, "Server")
    THEN set_header(resp, "Server", config.ident)
    ELSE resp

\* A 304 step that drops the headers together with the body.
strip_if_head_or_not_modified_bare(resp, was_head) ==
    IF was_head \/ resp.status = NotModified
    THEN [strip_body(resp) EXCEPT !.headers = {}, !.body.size = NoSize]
    ELSE resp

\* A step that strips the body of a 304 only.
strip_if_not_modified(resp, was_head) ==
    IF resp.status = NotModified THEN strip_body(resp) ELSE resp

\* dispatch(): the body is stripped for a HEAD request and for a 304.
strip_if_head_or_not_modified(resp, was_head) ==
    IF was_head \/ resp.status = NotModified THEN strip_body(resp) ELSE resp

\* A set_raw_header that adds its value to the ones the header has.
set_raw_content_length_adjoins(resp, size) == [resp EXCEPT !.content_length = size]

\* Response::set_raw_header("Content-Length", size): the header has this one
\* value from now on, whichever values it had. `content_length` holds the
\* value dispatch writes; values the application wrote are in `headers`.
set_raw_content_length(resp, size) ==
    [resp EXCEPT !.content_length = size,
                 !.headers = {h \in @ : h.name # "Content-Length"}]

\* dispatch(): no body and no Content-Length for a 204, else Content-Length
\* from the size of the body when it has one.
set_content_length(resp) ==
    IF resp.status = NoContent THEN [resp EXCEPT !.body = unsized_none]
    ELSE IF resp.body.size # NoSize THEN set_raw_content_length(resp, resp.body.size)
    ELSE resp

\* dispatch(): the Alt-Svc header when the server advertises one.
set_alt_svc(resp) ==
    IF config.alt_svc THEN set_header(resp, "Alt-Svc", "h3") ELSE resp

\* A finalization that drops the body of a HEAD response together with its size.
finalize_head_unsized(resp, delta, was_head, f) ==
    LET faired == handle_response(f, default_server(adjoin_cookies(resp, delta)))
        stripped == IF was_head THEN [faired EXCEPT !.body = unsized_none]
                    ELSE strip_if_head_or_not_modified(faired, FALSE)
    IN  set_alt_svc(set_content_length(stripped))

\* A finalization that sets Content-Length from the body's size whatever the status.
finalize_sizes_no_content(resp, delta, was_head, f) ==
    LET faired == handle_response(f, default_server(adjoin_cookies(resp, delta)))
        stripped == strip_if_head_or_not_modified(faired, was_head)
    IN  set_alt_svc(IF stripped.body.size # NoSize
                    THEN [stripped EXCEPT !.content_length = stripped.body.size,
                                          !.body = IF stripped.status = NoContent
                                                   THEN strip_body(stripped).body ELSE @]
                    ELSE stripped)

\* A step of the finalization and the response as the step left it.
Did(step, resp) == [step |-> step, response |-> resp]

\* A finalization that adjoins the delta once the response fairings have run.
finalize_steps_merges_late(resp, delta, was_head, f) ==
    LET served == default_server(resp)
        faired == handle_response(f, served)
        merged == adjoin_cookies(faired, handle_response_jar(f, [cookies |-> delta]).cookies)
        stripped == strip_if_head_or_not_modified(merged, was_head)
        sized == set_content_length(stripped)
        advertised == set_alt_svc(sized)
    IN  <<Did("cookies", merged), Did("server", served), Did("response_fairings", faired),
          Did("strip_body", stripped), Did("content_length", sized),
          Did("alt_svc", advertised)>>
\* A finalization that runs the response fairings on the finished response.
finalize_steps_fairings_last(resp, delta, was_head, f) ==
    LET merged == adjoin_cookies(resp, delta)
        served == default_server(merged)
        stripped == strip_if_head_or_not_modified(served, was_head)
        sized == set_content_length(stripped)
        advertised == set_alt_svc(sized)
        faired == handle_response(f, advertised)
    IN  <<Did("cookies", merged), Did("server", served), Did("strip_body", stripped),
          Did("content_length", sized), Did("alt_svc", advertised),
          Did("response_fairings", faired)>>

\* dispatch(): the steps from the merge of the cookie delta to the return,
\* in the order of the code, each on the response the step before left.
finalize_steps(resp, delta, was_head, f) ==
    LET merged == adjoin_cookies(resp, delta)
        served == default_server(merged)
        faired == handle_response(f, served)
        stripped == strip_if_head_or_not_modified(faired, was_head)
        sized == set_content_length(stripped)
        advertised == set_alt_svc(sized)
    IN  <<Did("cookies", merged), Did("server", served), Did("response_fairings", faired),
          Did("strip_body", stripped), Did("content_length", sized),
          Did("alt_svc", advertised)>>

\* dispatch(): from the merge of the cookie delta to the returned response.
finalize(resp, delta, was_head, f) ==
    LET steps == finalize_steps(resp, delta, was_head, f)
    IN  steps[Len(steps)].response

\* ------------------------------------------------------- the request body
\* Data as it is handed from route() to a handler and back: the bytes are
\* the task's, and a handler may have buffered them by peeking.
Data(peeked) == [peeked |-> peeked]

\* What a handler that forwards may have done to the body it hands back:
\* nothing, or peeked at it when there is something to peek at.
Peeks(bytes, o) == IF o.kind = "Forward" /\ bytes # <<>> THEN BOOLEAN ELSE {FALSE}
handed_back(given, peeks) == IF peeks THEN Data(TRUE) ELSE given

\* A loop that goes on with the body it gave to the handler.
forwarded_data_given(given, returned) == given

\* route(): `(data, status) = forwarded`, the body the loop goes on with.
forwarded_data(given, returned) == returned

\* route() and dispatch(): where the body is once a handler or a pass that
\* was given the body `given` has ended with o, tsk being the task after the
\* match: a Forward hands the body d back; routing goes on with a body and
\* whatever else comes next has none.
hand_over(tsk, o, given, d) ==
    [tsk EXCEPT !.body = IF tsk.pc = "route"
                         THEN Some(forwarded_data(given, d))
                         ELSE None,
                !.given = None,
                !.returned = IF o.kind = "Forward" THEN Some(d) ELSE @]

\* ---------------------------------------------------------------- actions
dispatch(r) ==
    /\ task[r].pc = "dispatch"
    /\ task[r].token
    /\ task' = [task EXCEPT ![r] =
                   route_begin(request[r],
                               [@ EXCEPT !.token = FALSE,
                                         !.body = Some(Data(FALSE)),
                                         !.was_head_request = (request[r].method = "HEAD")])]
    /\ UNCHANGED <<outside, routes, catchers, handlers, config, request, log>>

\* One iteration of route()'s loop up to the handler's future: attach the
\* route, create the future, which may panic.
route_invoke(r) ==
    /\ task[r].pc = "route"
    /\ task[r].candidates # <<>>
    /\ Len(log[r]) < MaxLog
    /\ LET i == Head(task[r].candidates)
           req == set_route(request[r], i)
           tsk == [task[r] EXCEPT !.candidates = Tail(@),
                                  !.given = task[r].body,
                                  !.body = None]
           entry == Invoked("route", i, tsk.pass, req.method, tsk.status)
       IN  \E panic \in {"setup", "none"} :
             IF panic = "setup"
             THEN LET o == guarded_outcome(catch_handle(panic, Error(InternalServerError)))
                      next == route_returned(req, tsk, o)
                  IN  /\ request' = store(request, r, next[1])
                      /\ task' = [task EXCEPT ![r] =
                                     hand_over([next[2] EXCEPT
                                                   !.last = Ended("panic", o.status, FALSE)],
                                               o, tsk.given.value, tsk.given.value)]
                      /\ log' = [log EXCEPT ![r] = Resolve(Append(@, entry), "panic")]
             ELSE /\ request' = store(request, r, req)
                  /\ task' = [task EXCEPT ![r] = [tsk EXCEPT !.pc = "handling"]]
                  /\ log' = [log EXCEPT ![r] = Append(@, entry)]
    /\ UNCHANGED <<outside, routes, catchers, handlers, config>>

\* The handler's future is polled to its end; the rest of the iteration.
route_poll(r) ==
    /\ task[r].pc = "handling"
    /\ \E ev \in RoutePolls :
         LET req == IF ev.cookie THEN add_cookie(request[r], RouteCookie) ELSE request[r]
             o == guarded_outcome(catch_handle(ev.panic, ev.value))
             result == IF ev.panic = "none" THEN o.kind ELSE "panic"
             code == IF o.kind = "Success" THEN o.response.status ELSE o.status
             next == IF route_match(o) = "return"
                     THEN route_returned(req, task[r], o)
                     ELSE <<req, [task[r] EXCEPT !.pc = "route", !.status = o.status]>>
         IN  \E peeks \in Peeks(task[r].data, o) :
               LET given == task[r].given.value
               IN  /\ request' = store(request, r, next[1])
                   /\ task' = [task EXCEPT ![r] =
                                  hand_over([next[2] EXCEPT
                                                !.last = Ended(result, code, ev.cookie)],
                                            o, given, handed_back(given, peeks))]
                   /\ log' = [log EXCEPT ![r] = Resolve(@, result)]
    /\ UNCHANGED <<outside, routes, catchers, handlers, config>>

\* route()'s loop has no candidate left: it returns Forward with the last status.
route_exhausted(r) ==
    /\ task[r].pc = "route"
    /\ task[r].candidates = <<>>
    /\ LET o == Forward(task[r].status)
           next == route_returned(request[r], task[r], o)
       IN  /\ request' = store(request, r, next[1])
           /\ task' = [task EXCEPT ![r] = hand_over(next[2], o, task[r].body.value, task[r].body.value)]
    /\ UNCHANGED <<outside, routes, catchers, handlers, config, log>>

\* A lookup that finds no catcher counts as a catcher's failure.
uncaught_fails(s) == CatchErr

\* invoke_catcher(): without a registered catcher, Rocket's default handler
\* for the status answers.
uncaught(s) == CatchOk(default_handler(s))

\* invoke_catcher() up to the catcher's future, which may panic when created;
\* without a catcher, the built-in handler answers.
invoke_catcher(r) ==
    /\ task[r].pc = "catch"
    /\ LET c == Router_catch(task[r].status) IN
       IF c = NoCatcher
       THEN /\ task' = [task EXCEPT ![r] =
                           [catcher_returned(@, uncaught(task[r].status))
                               EXCEPT !.source = "default", !.lookups = @ + 1]]
            /\ UNCHANGED log
       ELSE /\ Len(log[r]) < MaxLog
            /\ \E panic \in {"setup", "none"} :
                 LET tsk == [task[r] EXCEPT !.catcher = c, !.source = "catcher",
                                           !.lookups = @ + 1]
                     entry == Invoked("catcher", c, tsk.pass, request[r].method, tsk.status)
                 IN  IF panic = "setup"
                     THEN LET res == guarded_result(catch_handle(panic, CatchErr))
                          IN  /\ task' = [task EXCEPT ![r] =
                                             [catcher_returned(tsk, res) EXCEPT
                                                 !.last = Ended("panic", tsk.status, FALSE)]]
                              /\ log' = [log EXCEPT ![r] = Resolve(Append(@, entry), "panic")]
                     ELSE /\ task' = [task EXCEPT ![r] = [tsk EXCEPT !.pc = "catching"]]
                          /\ log' = [log EXCEPT ![r] = Append(@, entry)]
    /\ UNCHANGED <<outside, routes, catchers, handlers, config, request>>

\* The catcher's future is polled to its end; the rest of dispatch_error's iteration.
catcher_poll(r) ==
    /\ task[r].pc = "catching"
    /\ \E ev \in CatcherPolls(task[r].status) :
         LET res == guarded_result(catch_handle(ev.panic, ev.value))
             result == IF ev.panic # "none" THEN "panic"
                       ELSE IF res.ok THEN "Ok" ELSE "Err"
         IN  /\ request' = store(request, r,
                                  IF ev.cookie THEN add_cookie(request[r], CatcherCookie)
                                  ELSE request[r])
             /\ task' = [task EXCEPT ![r] =
                            [catcher_returned(@, res) EXCEPT
                                !.last = Ended(result,
                                               IF res.ok THEN res.response.status
                                               ELSE failed_status(res, task[r].status),
                                               ev.cookie)]]
             /\ log' = [log EXCEPT ![r] = Resolve(@, result)]
    /\ UNCHANGED <<outside, routes, catchers, handlers, config>>

\* The rest of dispatch() once a response is obtained.
respond(r) ==
    /\ task[r].pc = "finalize"
    /\ \E f \in FairingEffects :
         /\ task' = [task EXCEPT ![r] =
                        [@ EXCEPT !.pc = "done",
                                  !.fairing = f,
                                  !.steps = finalize_steps(task[r].response,
                                                           request[r].cookies,
                                                           task[r].was_head_request, f),
                                  !.response = finalize(@, request[r].cookies,
                                                        task[r].was_head_request, f)]]
         /\ request' = store(request, r, handle_response_jar(f, request[r]))
    /\ UNCHANGED <<outside, routes, catchers, handlers, config, log>>

Step(r) ==
    \/ dispatch(r)
    \/ route_invoke(r)
    \/ route_poll(r)
    \/ route_exhausted(r)
    \/ invoke_catcher(r)
    \/ catcher_poll(r)
    \/ respond(r)

Next == \E r \in Tasks : Step(r)

Spec == Init /\ [][Next]_vars

\* Every task in flight is scheduled again and again until it has returned.
FairSpec == PlainInit /\ [][Next]_vars /\ \A r \in Tasks : WF_vars(Step(r))

\* ------------------------------------------------- preprocess and upgrades
\* An override that takes the value of the first field whatever its name.
method_override_any_name(req, data) ==
    IF req.method = "POST" /\ is_form(req.content_type)
    THEN LET method == parsed_value(form_field(from_utf8(peek(data, PeekLen))))
         IN  IF method.some THEN set_method(req, method.value) ELSE req
    ELSE req

\* preprocess(): the method of a form is what its _method field says.
method_override(req, data) ==
    IF req.method = "POST" /\ is_form(req.content_type)
    THEN LET peek_buffer == peek(data, PeekLen)
             method == parsed_value(named_method(form_field(from_utf8(peek_buffer))))
         IN  IF method.some THEN set_method(req, method.value) ELSE req
    ELSE req

\* A preprocess that returns the token once the method is settled.
preprocess_returns_early(r) ==
    /\ task[r].pc = "preprocess"
    /\ request' = store(request, r, method_override(request[r], task[r].data))
    /\ task' = [task EXCEPT ![r] =
                   [@ EXCEPT !.pc = "dispatch",
                             !.token = TRUE,
                             !.pre = Append(@, "method_override")]]
    /\ UNCHANGED <<outside, routes, catchers, handlers, config, log>>

\* preprocess() up to the request fairings.
preprocess(r) ==
    /\ task[r].pc = "preprocess"
    /\ request' = store(request, r, method_override(request[r], task[r].data))
    /\ task' = [task EXCEPT ![r] =
                   [@ EXCEPT !.pc = "handle_request",
                             !.pre = Append(@, "method_override")]]
    /\ UNCHANGED <<outside, routes, catchers, handlers, config, log>>

\* The rest of preprocess(): the request fairings run and the token is returned.
request_fairings(r) ==
    /\ task[r].pc = "handle_request"
    /\ \E f \in RequestFairingEffects :
         request' = store(request, r, handle_request(f, request[r]))
    /\ task' = [task EXCEPT ![r] =
                   [@ EXCEPT !.pc = "dispatch",
                             !.token = TRUE,
                             !.pre = Append(@, "request_fairings")]]
    /\ UNCHANGED <<outside, routes, catchers, handlers, config, log>>

\* An upgrade that leaves the status of the response as it was.
switch_protocols_keeps_status(resp, proto) ==
    set_header(set_header([resp EXCEPT !.upgrade = @ \ {proto}],
                          "Connection", "Upgrade"),
               "Upgrade", proto)

\* extract_io_handler(): the response of an upgrade to proto.
switch_protocols(resp, proto) ==
    set_header(set_header([resp EXCEPT !.status = SwitchingProtocols,
                                       !.upgrade = @ \ {proto}],
                          "Connection", "Upgrade"),
               "Upgrade", proto)

\* extract_io_handler() on the response dispatch returned.
extract_io_handler(r) ==
    /\ task[r].pc = "done"
    /\ LET upgrades == request[r].upgrade
           found == search_upgrades(task[r].response, upgrades)
       IN  IF ~found.ok THEN
               task' = [task EXCEPT ![r] = [@ EXCEPT !.pc = "sent"]]
           ELSE IF found.value.some THEN
               LET proto == found.value.value
               IN  task' = [task EXCEPT ![r] =
                               [@ EXCEPT !.pc = "sent",
                                         !.io_handler = proto,
                                         !.response = switch_protocols(@, proto)]]
           ELSE
               task' = [task EXCEPT ![r] = [@ EXCEPT !.pc = "sent"]]
    /\ UNCHANGED <<outside, routes, catchers, handlers, config, request, log>>

\* The bodies sent to preprocess: what comes first, the first field, the rest.
Repeat(c, n) == [i \in 1 .. n |-> c]
Field(name, value) == name \o <<"=">> \o value

Leads == {<<>>, <<"&">>, Repeat("&", PeekLen - 3), <<"FF">>}
Firsts ==
    {Field(Text_method, Text_PUT), Field(Text_method, Text_HEAD),
     Field(Text_method, Text_BOGUS), Text_method, Field(<<"x">>, Text_PUT), <<>>}
Rests ==
    {<<>>,
     <<"&">> \o Field(Text_method, Text_GET),
     <<"&">> \o Field(<<"b">>, Repeat("a", PeekLen - 15) \o <<"C3", "A9">>)}
Payloads == {lead \o first \o rest : lead \in Leads, first \in Firsts, rest \in Rests}

\* One request from the connection layer to the connection layer: either any
\* form sent to an application with plain handlers, or a request that may ask
\* for an upgrade, sent to a server of any configuration whose application
\* is rich.
Incoming(m, ct, up, data) ==
    /\ request = [r \in Tasks |->
                    IF r = 1 THEN [NewRequest(m) EXCEPT !.content_type = ct, !.upgrade = up]
                    ELSE NewRequest("GET")]
    /\ task = [r \in Tasks |->
                 IF r = 1
                 THEN [NewTask(FALSE) EXCEPT !.pc = "preprocess", !.data = data]
                 ELSE NewTask(FALSE)]
    /\ log = [r \in Tasks |-> <<>>]

\* A table whose routes can hand a request over to one another: a HEAD
\* route, and two GET routes of different ranks.
ForwardingRoutes ==
    <<[method |-> "HEAD", rank |-> 1], [method |-> "GET", rank |-> 1],
      [method |-> "GET", rank |-> 2]>>

ServeInit ==
    /\ OutsideIdle
    /\ catchers \in SUBSET SharedCatchers
    /\ \/ /\ handlers = "plain"
          /\ routes \in {SharedRoutes, ForwardingRoutes}
          /\ config = DefaultConfig
          /\ \E m \in RequestMethods \cup {"POST"}, ct \in {NoContentType, "form", "json"},
                data \in Payloads : Incoming(m, ct, {}, data)
       \/ /\ handlers = "rich"
          /\ routes = SharedRoutes
          /\ config \in [ident : {NoIdent, "Rocket"}, alt_svc : BOOLEAN]
          /\ \E m \in RequestMethods, up \in {{}, {"websocket"}, {"h2c"}} :
                Incoming(m, NoContentType, up, <<>>)

ServeNext ==
    \E r \in Tasks :
        \/ preprocess(r)
        \/ request_fairings(r)
        \/ Step(r)
        \/ extract_io_handler(r)

\* preprocess, dispatch and extract_io_handler, as the connection layer calls them.
ServeSpec == ServeInit /\ [][ServeNext]_vars

\* ----------------------------------------------------------- Error::report
MaxPairs == 2           \* colliding pairs, failed fairings, sentries in one error

\* Only the dispatch variables of a program that dispatches no request.
DispatchIdle ==
    /\ routes = <<>>
    /\ catchers = {}
    /\ handlers = "plain"
    /\ config = DefaultConfig
    /\ request = [r \in Tasks |-> NewRequest("GET")]
    /\ task = [r \in Tasks |-> NewTask(FALSE)]
    /\ log = [r \in Tasks |-> <<>>]

ExitCode_SUCCESS == "SUCCESS"
ExitCode_FAILURE == "FAILURE"

\* The phase P of the Rocket<P> a launch or an ignition returns.
Phases == {"Build", "Ignite", "Orbit"}

\* ErrorKind: Bind with or without an endpoint, caused by a Rocket error, a
\* figment error or another one; Collisions with its pairs of routes and of
\* catchers, at least one of the two not empty; the fairings that failed;
\* the sentries that aborted; Liftoff with the instance it could recover.
ErrorKinds ==
    {[kind |-> "Bind", endpoint |-> e, cause |-> c] :
        e \in BOOLEAN, c \in {"rocket", "figment", "other"}}
      \cup {[kind |-> "Io"], [kind |-> "Config"], [kind |-> "InsecureSecretKey"],
            [kind |-> "Shutdown"]}
      \cup {[kind |-> "Collisions", routes |-> nm[1], catchers |-> nm[2]] :
               nm \in {p \in (0 .. MaxPairs) \X (0 .. MaxPairs) : p[1] + p[2] > 0}}
      \cup {[kind |-> k, count |-> n] :
               k \in {"FailedFairings", "SentinelAborts"}, n \in 1 .. MaxPairs}
      \cup {[kind |-> "Liftoff", recovered |-> b] : b \in BOOLEAN}

\* Result<Rocket<P>, Error>
LaunchResults ==
    {[ok |-> TRUE, phase |-> p] : p \in Phases}
      \cup {[ok |-> FALSE, phase |-> p, error |-> k] : p \in Phases, k \in ErrorKinds}

\* What is logged: spans and events, each at a level.
Event(level, name) == [level |-> level, name |-> name]

RECURSIVE Times(_, _)
Times(events, n) == IF n = 0 THEN <<>> ELSE events \o Times(events, n - 1)

\* Trace for figment::Error: a span and an event for the one error it holds.
trace_figment == <<Event("ERROR", "config"), Event("ERROR", "figment::error::Kind")>>

\* Trace for ErrorKind: what kind.trace(level) logs.
trace(k, level) ==
    IF k.kind = "Bind" THEN
        IF k.cause = "rocket" THEN <<Event(level, "error::io")>>
        ELSE IF k.cause = "figment" THEN trace_figment
        ELSE <<Event(level, "error::bind")>>
    ELSE IF k.kind = "Io" THEN <<Event(level, "error::io")>>
    ELSE IF k.kind = "Config" THEN trace_figment
    ELSE IF k.kind = "Collisions" THEN
        <<Event(level, "collision")>>
          \o Times(<<Event(level, "colliding route pair"),
                     Event(level, "route"), Event(level, "route")>>, k.routes)
          \o Times(<<Event(level, "colliding catcher pair"),
                     Event(level, "catcher"), Event(level, "catcher")>>, k.catchers)
          \o <<Event("INFO", "collisions can usually be resolved by ranking items")>>
    ELSE IF k.kind = "FailedFairings" THEN
        <<Event(level, "failed ignite fairings")>> \o Times(<<Event(level, "fairing")>>, k.count)
    ELSE IF k.kind = "SentinelAborts" THEN
        <<Event(level, "sentries")>> \o Times(<<Event(level, "sentry")>>, k.count)
    ELSE IF k.kind = "InsecureSecretKey" THEN <<Event(level, "insecure_key")>>
    ELSE IF k.kind = "Liftoff" THEN <<Event(level, "panic")>>
    ELSE <<Event(level, "shutdown")>>

trace_error(k) == trace(k, "ERROR")

\* Error::report: the exit code returned and what was logged.
report(result) ==
    IF result.ok
    THEN [exit |-> ExitCode_SUCCESS, trace |-> <<>>]
    ELSE [exit |-> ExitCode_SUCCESS,
          trace |-> <<Event("ERROR", "launch failure")>> \o trace_error(result.error)]

\* The program reports the result of its launch.
Report ==
    /\ launch.pc = "launched"
    /\ launch' = [launch EXCEPT !.pc = "reported",
                                !.exit = report(launch.result).exit,
                                !.trace = report(launch.result).trace]
    /\ UNCHANGED <<routes, catchers, handlers, config, request, task, log, files, pool>>

\* A launch or an ignition has returned, with any result.
ReportInit ==
    /\ DispatchIdle
    /\ files = NoFiles
    /\ pool = NoPool
    /\ launch \in {[NoLaunch EXCEPT !.pc = "launched", !.result = res] : res \in LaunchResults}

ReportNext == Report

ReportSpec == ReportInit /\ [][ReportNext]_vars
\* --------------------------------------------------------------- FileServer
MaxRewrites == 2        \* rewriters in a FileServer built by hand

\* A path: absolute or relative, its components, whether it ends with a
\* separator.
Path(abs, segs, slash) == [abs |-> abs, segs |-> segs, slash |-> slash]

\* Path::join: an absolute path replaces the base; joining the empty path
\* leaves a trailing separator.
join(base, p) ==
    IF p.abs THEN p
    ELSE Path(TRUE, base.segs \o p.segs, p.slash \/ p.segs = <<>>)

\* The directory the files are served from, and a file in it.
Root == Path(TRUE, <<"static">>, FALSE)
RootFile == Path(TRUE, <<"static", "a.txt">>, FALSE)

\* The file system: what is at an absolute path; at any other path, nothing.
Kind(segs) ==
    IF segs \in {<<"static">>, <<"static", "inner">>, <<"static", "empty">>} THEN "dir"
    ELSE IF segs \in {<<"static", "a.txt">>, <<"static", ".hidden">>,
                      <<"static", "locked.txt">>, <<"static", "index.html">>,
                      <<"static", "inner", "index.html">>} THEN "file"
    ELSE "none"

\* Path::is_dir and Path::is_file: a regular file is not found under a name
\* that ends with a separator.
is_dir(p) == p.abs /\ Kind(p.segs) = "dir"
is_file(p) == p.abs /\ ~p.slash /\ Kind(p.segs) = "file"

\* NamedFile::open: a file that is there may still not open.
opens(p) == is_file(p) /\ p.segs # <<"static", "locked.txt">>

strip_trailing_slash(p) == [p EXCEPT !.slash = FALSE]

\* FileResponse
File(p) == [kind |-> "File", path |-> p]
Redirect(valid) == [kind |-> "Redirect", valid |-> valid]

\* The responses of a FileServer: the contents of a file, or a redirect.
FileContents(p) == [file |-> p.segs]
Redirection == [redirect |-> TRUE]

\* The request URIs: the path after the mount point, whether the URI ends
\* with '/', whether the path is one a file system path can be made of.
Uri(segs, slash, valid) == [segments |-> segs, slash |-> slash, valid |-> valid]
Uris ==
    {Uri(segs, slash, TRUE) :
        segs \in {<<>>, <<"a.txt">>, <<"inner">>, <<"empty">>, <<".hidden">>,
                  <<"locked.txt">>, <<"missing">>},
        slash \in BOOLEAN}
      \cup {Uri(<<"*">>, FALSE, FALSE)}

\* The rewriters: those FileServer::new registers, file_root, and rewriters
\* of the application's own that answer None, a fixed file, or a redirect
\* with or without a URI a response can be made of.
Rewriters ==
    {"filter_dotfiles", "dir_root", "file_root", "normalize_dirs", "index",
     "none", "file", "redirect", "bad_redirect"}

filter_dotfiles(file) == \A i \in 1 .. Len(file.path.segs) : file.path.segs[i] # ".hidden"

\* FilterFile and MapFile: only a File is filtered or mapped.
FilterFile(keep, opt) ==
    IF opt.some /\ opt.value.kind = "File" /\ ~keep THEN None ELSE opt

MapFile(mapped, opt) ==
    IF opt.some /\ opt.value.kind = "File" THEN Some(mapped) ELSE opt

\* Rewriter::rewrite for each rewriter.
rewrite(rw, opt, uri) ==
    LET file == opt.value IN
    IF rw = "filter_dotfiles" THEN FilterFile(filter_dotfiles(file), opt)
    ELSE IF rw = "dir_root" THEN MapFile(File(join(Root, file.path)), opt)
    ELSE IF rw = "file_root" THEN MapFile(File(join(RootFile, file.path)), opt)
    ELSE IF rw = "normalize_dirs"
         THEN MapFile(IF ~uri.slash /\ is_dir(file.path) THEN Redirect(TRUE) ELSE file, opt)
    ELSE IF rw = "index"
         THEN MapFile(IF is_dir(file.path)
                      THEN File(join(file.path, Path(FALSE, <<"index.html">>, FALSE)))
                      ELSE file, opt)
    ELSE IF rw = "none" THEN None
    ELSE IF rw = "file" THEN Some(File(RootFile))
    ELSE IF rw = "redirect" THEN Some(Redirect(TRUE))
    ELSE Some(Redirect(FALSE))

\* FileServer::new: the rewriters it registers, in this order.
DefaultRewrites == <<"filter_dotfiles", "dir_root", "normalize_dirs", "index">>

\* File::respond_to: the file when it is a regular file and opens.
File_respond_to(file) ==
    LET path == strip_trailing_slash(file.path) IN
    IF is_file(path)
    THEN IF opens(path) THEN Success(FileContents(path)) ELSE Forward(NotFound)
    ELSE Forward(NotFound)

\* A redirect that fails when no response can be made of it.
Redirect_respond_to_fails(r) ==
    IF r.valid THEN Success(Redirection) ELSE Error(InternalServerError)

\* Redirect::respond_to(..).or_forward(500)
Redirect_respond_to(r) ==
    IF r.valid THEN Success(Redirection) ELSE Forward(InternalServerError)

\* handle(): the request's path as the first FileResponse.
handle_begin ==
    /\ files.pc = "handle"
    /\ LET path == IF files.uri.valid
                   THEN Some(Path(FALSE, files.uri.segments, FALSE)) ELSE None
           response == IF path.some THEN Some(File(path.value)) ELSE None
       IN  files' = [files EXCEPT !.pc = "rewriting", !.i = 1, !.response = response]
    /\ UNCHANGED <<routes, catchers, handlers, config, request, task, log, launch, pool>>

\* handle(): one iteration of the loop over the rewriters.
handle_rewrite ==
    /\ files.pc = "rewriting"
    /\ files.i <= Len(files.rewrites)
    /\ files' = [files EXCEPT !.i = @ + 1,
                              !.response = rewrite(files.rewrites[files.i], @, files.uri)]
    /\ UNCHANGED <<routes, catchers, handlers, config, request, task, log, launch, pool>>

\* handle(): the match on the final response.
handle_respond ==
    /\ files.pc = "rewriting"
    /\ files.i > Len(files.rewrites)
    /\ LET response == files.response
           outcome == IF ~response.some THEN Forward(NotFound)
                      ELSE IF response.value.kind = "File" THEN File_respond_to(response.value)
                      ELSE Redirect_respond_to(response.value)
       IN  files' = [files EXCEPT !.pc = "returned", !.outcome = outcome]
    /\ UNCHANGED <<routes, catchers, handlers, config, request, task, log, launch, pool>>

\* A request routed to a FileServer: the one FileServer::new builds, or one
\* built by hand from FileServer::empty().
FilesInit ==
    /\ DispatchIdle
    /\ launch = NoLaunch
    /\ pool = NoPool
    /\ \E rws \in SeqsUpTo(Rewriters, MaxRewrites) \cup {DefaultRewrites}, uri \in Uris :
         files = [NoFiles EXCEPT !.pc = "handle", !.rewrites = rws, !.uri = uri]

FilesNext == handle_begin \/ handle_rewrite \/ handle_respond

FilesSpec == FilesInit /\ [][FilesNext]_vars
\* ------------------------------------------------------------ ConnectionPool
MaxClients == 2         \* callers of ConnectionPool::get, each with one Connection at a time
MaxWait == 2            \* the configured timeout, in ticks of the clock

Clients == 1..MaxClients

\* The closures given to Connection::run on one Connection at the same time.
Jobs == {"first", "second"}

\* A caller that holds nothing: no get() in flight, no Connection.
NoJob == [pc |-> "none", awaited |-> FALSE]
NoOutcome == [kind |-> "none"]
NoConnection ==
    [pc |-> "idle", waited |-> 0, permit |-> FALSE, slot |-> FALSE, lock |-> "free",
     drop |-> "none", job |-> [j \in Jobs |-> NoJob], outcome |-> NoOutcome]

\* The request guard's future awaits get().
Pending == [kind |-> "pending"]

\* ConnectionPool::fairing: the pool and a semaphore of pool_size permits.
ConnectionPool(pool_size, timeout) ==
    [size |-> pool_size, timeout |-> timeout, permits |-> pool_size, checked_out |-> 0,
     client |-> [c \in Clients |-> NoConnection]]

\* No database fairing was attached: no ConnectionPool is in managed state.
Unattached ==
    [size |-> 0, timeout |-> 0, permits |-> 0, checked_out |-> 0,
     client |-> [c \in Clients |-> NoConnection]]

\* IntoOutcome for Option: or_error.
or_error(opt, e) ==
    IF opt.some THEN [kind |-> "Success", value |-> opt.value] ELSE Error(e)

\* A guard that forwards when it gets no connection.
from_request_outcome_forwards(attached, got) ==
    IF ~attached THEN Error(InternalServerError)
    ELSE IF got.some THEN or_error(got, ServiceUnavailable)
    ELSE Forward(ServiceUnavailable)

\* FromRequest for Connection: the match on the managed state, got being
\* what get() returned.
from_request_outcome(attached, got) ==
    IF attached THEN or_error(got, ServiceUnavailable) ELSE Error(InternalServerError)

\* What the caller of get() makes of its result: the request guard its
\* outcome, a direct caller nothing that is followed here.
returned_to(cl, got) ==
    IF cl.outcome = Pending THEN from_request_outcome(TRUE, got) ELSE NoOutcome

\* A semaphore that hands out a permit without counting it.
acquire_owned_uncounted(permits) == permits

\* A permit whose drop gives nothing back to the semaphore.
release_kept(permits) == permits

\* Semaphore::acquire_owned, and the drop of an OwnedSemaphorePermit.
acquire_owned(permits) == permits - 1
release(permits) == permits + 1

\* A mutex that anyone may lock at any time.
lock_owned_unguarded(lock) == TRUE

\* Mutex::lock_owned and blocking_lock return once the mutex is free.
lock_owned(lock) == lock = "free"

\* tokio's timeout(duration, future): the deadline has passed.
elapsed(waited, timeout) == waited >= timeout

\* Every task spawned for c's last Connection has ended, so that its Arc is
\* gone and the caller may be followed afresh.
Finished(cl) ==
    \/ cl.pc = "idle"
    \/ /\ cl.pc = "dropped"
       /\ cl.drop = "done"
       /\ \A j \in Jobs : cl.job[j].pc = "none"

\* ConnectionPool::get, up to the wait for a permit.
get(c) ==
    /\ pool.size > 0
    /\ Finished(pool.client[c])
    /\ pool' = [pool EXCEPT !.client[c] = [NoConnection EXCEPT !.pc = "acquire"]]
    /\ UNCHANGED <<routes, catchers, handlers, config, request, task, log, launch, files>>

\* FromRequest for Connection, up to the wait for a permit: with the pool in
\* managed state the guard calls get(); without it the guard fails at once.
from_request(c) ==
    /\ Finished(pool.client[c])
    /\ IF pool.size > 0
       THEN pool' = [pool EXCEPT !.client[c] =
                        [NoConnection EXCEPT !.pc = "acquire", !.outcome = Pending]]
       ELSE pool' = [pool EXCEPT !.client[c] =
                        [NoConnection EXCEPT !.outcome = from_request_outcome(FALSE, None)]]
    /\ UNCHANGED <<routes, catchers, handlers, config, request, task, log, launch, files>>

\* The clock: a wait for a permit ends at its deadline at the latest.
tick ==
    /\ pool.size > 0
    /\ \E c \in Clients : pool.client[c].pc = "acquire"
    /\ \A c \in Clients :
          pool.client[c].pc = "acquire" => ~elapsed(pool.client[c].waited, pool.timeout)
    /\ \A c \in Clients : pool.client[c].waited <= MaxWait
    /\ pool' = [pool EXCEPT !.client =
                   [c \in Clients |->
                       IF @[c].pc = "acquire" THEN [@[c] EXCEPT !.waited = @ + 1] ELSE @[c]]]
    /\ UNCHANGED <<routes, catchers, handlers, config, request, task, log, launch, files>>

\* get(): the semaphore gives a permit.
acquired(c) ==
    /\ pool.client[c].pc = "acquire"
    /\ pool.permits > 0
    /\ pool' = [pool EXCEPT !.permits = acquire_owned(@),
                            !.client[c].permit = TRUE,
                            !.client[c].waited = 0,
                            !.client[c].pc = "checkout"]
    /\ UNCHANGED <<routes, catchers, handlers, config, request, task, log, launch, files>>

\* get(): the wait for a permit timed out; get() returns None.
timed_out(c) ==
    /\ pool.client[c].pc = "acquire"
    /\ elapsed(pool.client[c].waited, pool.timeout)
    /\ pool' = [pool EXCEPT !.client[c] =
                   [NoConnection EXCEPT !.outcome = returned_to(pool.client[c], None)]]
    /\ UNCHANGED <<routes, catchers, handlers, config, request, task, log, launch, files>>

\* get(): pool.get_timeout in a blocking task. The r2d2 pool gives one of its
\* pool_size connections, and get() returns a Connection that holds it and
\* the permit; or it gives none in time, and get() returns None, dropping the
\* permit.
get_timeout(c) ==
    /\ pool.client[c].pc = "checkout"
    /\ \E ok \in BOOLEAN :
         IF ok /\ pool.checked_out < pool.size
         THEN pool' = [pool EXCEPT !.checked_out = @ + 1,
                                   !.client[c].slot = TRUE,
                                   !.client[c].pc = "alive",
                                   !.client[c].outcome = returned_to(pool.client[c], Some(c))]
         ELSE pool' = [pool EXCEPT !.permits = release(@),
                                   !.client[c] =
                                      [NoConnection EXCEPT
                                          !.outcome = returned_to(pool.client[c], None)]]
    /\ UNCHANGED <<routes, catchers, handlers, config, request, task, log, launch, files>>

\* Connection::run up to its await: the closure is spawned as a blocking task.
run(c, j) ==
    /\ pool.client[c].pc = "alive"
    /\ pool.client[c].job[j].pc = "none"
    /\ pool' = [pool EXCEPT !.client[c].job[j] = [pc |-> "spawned", awaited |-> TRUE]]
    /\ UNCHANGED <<routes, catchers, handlers, config, request, task, log, launch, files>>

\* The future of run() is dropped before the closure has ended; the
\* blocking task goes on.
run_cancelled(c, j) ==
    /\ pool.client[c].job[j].awaited
    /\ pool' = [pool EXCEPT !.client[c].job[j].awaited = FALSE]
    /\ UNCHANGED <<routes, catchers, handlers, config, request, task, log, launch, files>>

\* run()'s blocking task: lock the mutex, expect the connection in the slot.
\* Without it the task panics, which unlocks the mutex.
run_locked(c, j) ==
    /\ pool.client[c].job[j].pc = "spawned"
    /\ lock_owned(pool.client[c].lock)
    /\ IF pool.client[c].slot
       THEN pool' = [pool EXCEPT !.client[c].lock = j,
                                 !.client[c].job[j].pc = "running"]
       ELSE pool' = [pool EXCEPT !.client[c].job[j] = NoJob]
    /\ UNCHANGED <<routes, catchers, handlers, config, request, task, log, launch, files>>

\* run()'s blocking task: f(conn) returns, the guard is dropped.
run_returned(c, j) ==
    /\ pool.client[c].job[j].pc = "running"
    /\ pool' = [pool EXCEPT !.client[c].lock = IF @ = j THEN "free" ELSE @,
                            !.client[c].job[j] = NoJob]
    /\ UNCHANGED <<routes, catchers, handlers, config, request, task, log, launch, files>>

\* Drop for Connection up to the drop of the permit: within a runtime the
\* blocking task is spawned and drop() goes on; without one, drop() waits
\* for the mutex itself. No future of run() borrows a Connection that is
\* dropped.
drop(c) ==
    /\ pool.client[c].pc = "alive"
    /\ \A j \in Jobs : ~pool.client[c].job[j].awaited
    /\ \E runtime \in BOOLEAN :
         IF runtime
         THEN pool' = [pool EXCEPT !.client[c].drop = "spawned",
                                   !.client[c].outcome = NoOutcome,
                                   !.client[c].pc = "release"]
         ELSE pool' = [pool EXCEPT !.client[c].drop = "blocked",
                                   !.client[c].outcome = NoOutcome,
                                   !.client[c].pc = "dropping"]
    /\ UNCHANGED <<routes, catchers, handlers, config, request, task, log, launch, files>>

\* Drop's blocking task: lock the mutex, take the connection out of the slot
\* and drop it, which returns it to the r2d2 pool.
drop_task(c) ==
    /\ pool.client[c].drop = "spawned"
    /\ lock_owned(pool.client[c].lock)
    /\ pool' = [pool EXCEPT !.checked_out = IF pool.client[c].slot THEN @ - 1 ELSE @,
                            !.client[c].slot = FALSE,
                            !.client[c].drop = "done"]
    /\ UNCHANGED <<routes, catchers, handlers, config, request, task, log, launch, files>>

\* Drop outside of a runtime: blocking_lock, take the connection, drop it.
drop_blocking(c) ==
    /\ pool.client[c].drop = "blocked"
    /\ lock_owned(pool.client[c].lock)
    /\ pool' = [pool EXCEPT !.checked_out = IF pool.client[c].slot THEN @ - 1 ELSE @,
                            !.client[c].slot = FALSE,
                            !.client[c].drop = "done",
                            !.client[c].pc = "release"]
    /\ UNCHANGED <<routes, catchers, handlers, config, request, task, log, launch, files>>

\* Drop for Connection: drop(permit), its last statement.
drop_permit(c) ==
    /\ pool.client[c].pc = "release"
    /\ pool' = [pool EXCEPT !.permits = release(@),
                            !.client[c].permit = FALSE,
                            !.client[c].pc = "dropped"]
    /\ UNCHANGED <<routes, catchers, handlers, config, request, task, log, launch, files>>

\* A pool of one connection or of as many as there are callers, or none.
PoolInit ==
    /\ DispatchIdle
    /\ launch = NoLaunch
    /\ files = NoFiles
    /\ \/ \E pool_size \in {1, MaxClients} : pool = ConnectionPool(pool_size, MaxWait)
       \/ pool = Unattached

PoolNext ==
    \/ tick
    \/ \E c \in Clients :
          \/ get(c)
          \/ from_request(c)
          \/ acquired(c)
          \/ timed_out(c)
          \/ get_timeout(c)
          \/ drop(c)
          \/ drop_task(c)
          \/ drop_blocking(c)
          \/ drop_permit(c)
          \/ \E j \in Jobs :
                \/ run(c, j)
                \/ run_cancelled(c, j)
                \/ run_locked(c, j)
                \/ run_returned(c, j)

PoolSpec == PoolInit /\ [][PoolNext]_vars
\* ------------------------------------------------------ reading the history
Started == {r \in Tasks : task[r].pc # "unused"}
Returned(r) == task[r].pc = "done"

RouteEntries(r, p) ==
    SelectSeq(log[r], LAMBDA e : e.handler = "route" /\ e.pass = p)
CatcherEntries(r) ==
    SelectSeq(log[r], LAMBDA e : e.handler = "catcher")
Panicked(r) == \E i \in 1 .. Len(log[r]) : log[r][i].result = "panic"
RoutePanicked(r) ==
    \E i \in 1 .. Len(log[r]) : log[r][i].handler = "route" /\ log[r][i].result = "panic"

\* -------------------------------------------------------------------- C1
\* C1 (totality): every dispatch that starts returns, whatever its handlers
\* and catchers do, and what it returns is a response; a dispatch that has
\* returned stays returned with that one response.
C1_Totality ==
    /\ \A r \in Tasks : (task[r].pc = "dispatch") ~> Returned(r)
    /\ [][\A r \in Tasks : Returned(r) => (Returned(r)' /\ task[r].response' = task[r].response)]_vars

\* A dispatch has returned although a route handler and a catcher panicked.
C1_Witness ==
    \E r \in Tasks :
        /\ Returned(r)
        /\ RoutePanicked(r)
        /\ \E i \in 1 .. Len(log[r]) : log[r][i].handler = "catcher" /\ log[r][i].result = "panic"

\* -------------------------------------------------------------------- C2
\* The routing passes made so far, and whether pass p is over.
PassOver(r, p) ==
    \/ task[r].pass > p
    \/ task[r].pass = p /\ task[r].pc \in {"catch", "catching", "finalize", "done"}

Terminal(e) == e.result \in {"Success", "Error", "panic"}

\* C2 (forward ordering): in each routing pass the handlers invoked are an
\* initial part of the router's candidates, each invoked once and in that
\* order; every one but the last forwarded; a pass that is over either went
\* through all candidates forwarding, or ended at the first candidate that
\* did not forward, whose outcome is the outcome of the pass: its response
\* is the response obtained, its status the status handed to the catchers.
C2_ForwardOrdering ==
    \A r \in Tasks : \A p \in 1 .. 2 :
        LET es == RouteEntries(r, p)
            cs == Router_route(es[1].method)
        IN  Len(es) > 0 =>
              /\ Len(es) <= Len(cs)
              /\ \A i \in 1 .. Len(es) : es[i].id = cs[i]
              /\ \A i \in 1 .. Len(es) - 1 : es[i].result = "Forward"
              /\ PassOver(r, p) =>
                    /\ Terminal(es[Len(es)]) \/ Len(es) = Len(cs)
                    /\ es[Len(es)].result # "pending"
              /\ (PassOver(r, p) /\ task[r].pass = p /\ es[Len(es)].result = "Success") =>
                    /\ task[r].source = "route"
                    /\ task[r].obtained.status = task[r].last.status
              /\ (PassOver(r, p) /\ task[r].pass = p /\ es[Len(es)].result \in {"Error", "panic"}) =>
                    /\ task[r].source # "route"
                    /\ task[r].lookups = 0 => task[r].status = task[r].last.status

\* The first candidate forwarded and the second answered.
C2_Witness ==
    \E r \in Tasks :
        LET es == RouteEntries(r, 1)
        IN  /\ Returned(r)
            /\ Len(es) = 2
            /\ es[1].result = "Forward"
            /\ es[2].result = "Success"
            /\ task[r].source = "route"

\* -------------------------------------------------------------------- C3
\* C3 (escalation bound): one dispatch_error call looks a catcher up at most
\* twice and invokes at most two catcher handlers.
C3_EscalationBound ==
    \A r \in Tasks : task[r].lookups <= 2 /\ Len(CatcherEntries(r)) <= 2

\* Two catchers were invoked and both failed.
C3_Witness ==
    \E r \in Tasks :
        LET cs == CatcherEntries(r)
        IN  /\ Returned(r)
            /\ Len(cs) = 2
            /\ cs[1].result \in {"Err", "panic"}
            /\ cs[2].result \in {"Err", "panic"}

\* -------------------------------------------------------------------- C4
\* Routing ended with 404, the catcher registered for 404 was invoked first
\* and panicked, and the dispatch has returned.
NotFoundCatcherPanicked(r) ==
    LET cs == CatcherEntries(r)
    IN  /\ Returned(r)
        /\ Len(cs) >= 1
        /\ cs[1].id = NotFound
        /\ cs[1].for = NotFound
        /\ cs[1].result = "panic"

\* C4 as stated: once the 404 catcher has panicked, exactly two catchers are
\* invoked, the second for 500, and the built-in handler answers.
C4_TwoInvocationsThenDefault ==
    \A r \in Tasks :
        NotFoundCatcherPanicked(r) =>
            /\ Len(CatcherEntries(r)) = 2
            /\ CatcherEntries(r)[2].for = InternalServerError
            /\ task[r].source = "default"

\* C4 (amended): once the 404 catcher has panicked the lookup is made again
\* for 500. Without a catcher for 500 the 404 catcher's is the only
\* invocation and the built-in handler answers 500. With one, it is the
\* second and last invocation, and the built-in handler answers 500 exactly
\* when that catcher fails as well.
C4_EscalationAfterPanic ==
    \A r \in Tasks :
        NotFoundCatcherPanicked(r) =>
            LET cs == CatcherEntries(r)
                failed == Len(cs) = 2 /\ cs[2].result \in {"Err", "panic"}
            IN  /\ task[r].lookups = 2
                /\ IF Router_catch(InternalServerError) = NoCatcher
                   THEN Len(cs) = 1 /\ task[r].source = "default"
                   ELSE /\ Len(cs) = 2
                        /\ cs[2].for = InternalServerError
                        /\ cs[2].id = Router_catch(InternalServerError)
                        /\ (task[r].source = "default") <=> failed
                /\ task[r].source = "default" =>
                       task[r].obtained = default_handler(InternalServerError)

\* The 404 catcher panicked, the 500 catcher failed and the built-in handler answered.
C4_Witness ==
    \E r \in Tasks :
        /\ NotFoundCatcherPanicked(r)
        /\ Len(CatcherEntries(r)) = 2
        /\ CatcherEntries(r)[2].id = InternalServerError
        /\ task[r].source = "default"

\* -------------------------------------------------------------------- C5
AllForwarded(es) == \A i \in 1 .. Len(es) : es[i].result = "Forward"

\* C5 (HEAD retry): route() runs at most twice in a dispatch, and a second
\* time exactly when the request came in as HEAD and the first pass went
\* through all its candidates forwarding; the second pass runs as GET.
C5_HeadRetry ==
    \A r \in Tasks :
        LET first == RouteEntries(r, 1)
        IN  /\ task[r].pass <= 2
            /\ task[r].pass = 2 =>
                  /\ task[r].was_head_request
                  /\ request[r].method = "GET"
                  /\ AllForwarded(first)
                  /\ Len(first) = Len(Router_route("HEAD"))
            /\ (PassOver(r, 1) /\ task[r].pass = 1 /\ task[r].was_head_request) =>
                  /\ Len(first) > 0
                  /\ Terminal(first[Len(first)])
            /\ (task[r].pass >= 1 /\ ~task[r].was_head_request) =>
                  /\ task[r].pass = 1
                  /\ request[r].method # "HEAD"

\* A HEAD request whose HEAD route forwarded was routed again as GET.
C5_Witness ==
    \E r \in Tasks :
        /\ Returned(r)
        /\ task[r].pass = 2
        /\ Len(RouteEntries(r, 1)) = 1
        /\ Len(RouteEntries(r, 2)) = 1

\* -------------------------------------------------------------------- C6
\* A HEAD request answered by a GET route on the second pass with 200 and a
\* sized body, the response fairings having left the response as it was.
HeadServedByGet(r) ==
    /\ Returned(r)
    /\ task[r].was_head_request
    /\ task[r].pass = 2
    /\ task[r].source = "route"
    /\ task[r].obtained.status = Ok
    /\ task[r].obtained.body.size # NoSize
    /\ task[r].fairing = "none"

\* C6 (HEAD auto-fallback): such a response has status 200, no body, and
\* the Content-Length of the body the GET route answered with, which is the
\* Content-Length the same response gets for a GET request.
C6_HeadAutoFallback ==
    \A r \in Tasks :
        HeadServedByGet(r) =>
            /\ task[r].response.status = Ok
            /\ task[r].response.body.data = "none"
            /\ task[r].response.content_length = task[r].obtained.body.size
            /\ task[r].response.content_length =
                   finalize(task[r].obtained, {}, FALSE, "none").content_length

\* A HEAD request, no HEAD route, and the GET route's body of BodyLen bytes.
C6_Witness ==
    \E r \in Tasks :
        /\ HeadServedByGet(r)
        /\ Router_route("HEAD") = <<>>
        /\ task[r].response.content_length = BodyLen

\* -------------------------------------------------------------------- C7
\* C7 (cookie isolation): when the catchers are entered the cookie delta is
\* empty, and a response that does not come from a route carries no cookie
\* added by a route handler.
C7_CookieIsolation ==
    \A r \in Tasks :
        /\ (task[r].pc = "catch" /\ task[r].lookups = 0) => request[r].cookies = {}
        /\ task[r].pc \in {"catch", "catching"} => RouteCookie \notin request[r].cookies
        /\ (Returned(r) /\ task[r].source # "route") =>
               RouteCookie \notin task[r].response.set_cookie

\* A route handler added a cookie and forwarded, no route answered, and the
\* built-in handler's response has returned.
C7_Witness ==
    \E r \in Tasks :
        /\ Returned(r)
        /\ task[r].source = "default"
        /\ Len(CatcherEntries(r)) = 0
        /\ task[r].last.result = "Forward"
        /\ task[r].last.cookie
        /\ task[r].response.set_cookie = {}

\* -------------------------------------------------------------------- C8
\* C8 (panic containment): after a route handler has panicked, at setup or
\* at poll, no further candidate is invoked, the pass has returned
\* Error(500), and the request is answered by the catchers for status 500:
\* the one lookup is for 500, and what answers is the catcher found for it
\* or the built-in handler for 500.
C8_PanicContainment ==
    \A r \in Tasks :
        RoutePanicked(r) =>
            LET es == SelectSeq(log[r], LAMBDA e : e.handler = "route")
                cs == CatcherEntries(r)
            IN  /\ es[Len(es)].result = "panic"
                /\ \A i \in 1 .. Len(es) - 1 : es[i].result = "Forward"
                /\ task[r].pc \in {"catch", "catching", "finalize", "done"}
                /\ task[r].status = InternalServerError
                /\ task[r].lookups <= 1
                /\ \A i \in 1 .. Len(cs) :
                      cs[i].for = InternalServerError
                          /\ cs[i].id = Router_catch(InternalServerError)
                /\ task[r].pc \in {"finalize", "done"} =>
                      /\ task[r].lookups = 1
                      /\ task[r].source \in {"catcher", "default"}
                      /\ task[r].source = "default" =>
                            task[r].obtained = default_handler(InternalServerError)
                      /\ task[r].source = "catcher" =>
                            Len(cs) = 1 /\ cs[1].result = "Ok"

\* A route handler added a cookie and panicked at poll, and the built-in
\* handler for 500 has answered.
C8_Witness ==
    \E r \in Tasks :
        /\ Returned(r)
        /\ RoutePanicked(r)
        /\ Len(CatcherEntries(r)) = 0
        /\ task[r].last.result = "panic"
        /\ task[r].last.cookie
        /\ task[r].obtained = default_handler(InternalServerError)

\* -------------------------------------------------------------------- C9
Untouched(q) ==
    /\ request'[q] = request[q]
    /\ task'[q] = task[q]
    /\ log'[q] = log[q]

\* With plain handlers, the response a dispatch returns as told by its own
\* invocations alone: the last route's, with the cookies of the routes that
\* forwarded before it; else the last catcher's, with the catcher's cookie;
\* else the built-in handler's for the status the catchers were left with.
OwnAnswer(q) ==
    LET es == SelectSeq(log[q], LAMBDA e : e.handler = "route")
        cs == CatcherEntries(q)
        ended == IF Len(es) = 0 THEN "Forward" ELSE es[Len(es)].result
        delta == IF \E i \in 1 .. Len(es) : es[i].result = "Forward"
                 THEN {RouteCookie} ELSE {}
        status == IF Len(cs) > 0 \/ ended = "panic" THEN InternalServerError
                  ELSE IF ended = "Error" THEN Forbidden
                  ELSE NotFound
        head == task[q].was_head_request
    IN  IF ended = "Success"
        THEN finalize(NewResponse(Ok, Sized(BodyLen)), delta, head, "none")
        ELSE IF Len(cs) > 0 /\ cs[Len(cs)].result = "Ok"
        THEN finalize(NewResponse(cs[Len(cs)].for, Sized(BodyLen)), {CatcherCookie}, head, "none")
        ELSE finalize(default_handler(status), {}, head, "none")

\* C9 (panic isolation), for applications with plain handlers, whose
\* catchers answer with the status they are invoked for and whose fairings
\* leave responses alone: the step in which a request's route handler
\* panics changes nothing of any other request; the request whose handler
\* panicked gets a response with status 500; every other request in flight
\* still gets its response; and the response of every request is the one
\* its own handlers account for, whatever happened to the other requests.
C9_PanicIsolation ==
    /\ [][\A r \in Tasks :
            (~RoutePanicked(r) /\ RoutePanicked(r)') =>
                \A q \in Tasks \ {r} : Untouched(q)]_vars
    /\ [](\A r \in Tasks :
            (RoutePanicked(r) /\ Returned(r)) =>
                task[r].response.status = InternalServerError)
    /\ \A q \in Tasks :
            (task[q].pc \notin {"unused", "done"}
                /\ \E r \in Tasks \ {q} : RoutePanicked(r)) ~> Returned(q)
    /\ [](\A q \in Tasks : Returned(q) => task[q].response = OwnAnswer(q))

\* One request's handler panicked and it was answered 500 while another
\* request, dispatched at the same time, was answered by its route.
C9_Witness ==
    \E r \in Tasks : \E q \in Tasks \ {r} :
        /\ RoutePanicked(r)
        /\ Returned(r)
        /\ task[r].response.status = InternalServerError
        /\ Returned(q)
        /\ task[q].source = "route"
        /\ task[q].response.status = Ok

\* ------------------------------------------------------------------- C10
\* C10 (no interference): a step of a dispatch writes nothing but the
\* request, the locals and the history of the one task that takes it, and
\* never the route table or the catcher table.
C10_NoInterference ==
    [][/\ routes' = routes
       /\ catchers' = catchers
       /\ \E r \in Tasks : \A q \in Tasks \ {r} : Untouched(q)]_vars

\* Two dispatches are under way, each with a route attached to its own
\* request, one in a route handler and one in a catcher.
C10_Witness ==
    \E r \in Tasks : \E q \in Tasks \ {r} :
        /\ task[r].pc = "handling"
        /\ request[r].route # NoRoute
        /\ task[q].pc = "catching"
        /\ request[q].route # NoRoute

C12_NotModified ==
    \A r \in Tasks :
        (Returned(r) /\ task[r].response.status = NotModified) =>
            LET faired == handle_response(task[r].fairing, task[r].obtained)
            IN  /\ task[r].response.body.data = "none"
                /\ task[r].response.content_length = faired.body.size
                /\ faired.headers \ OwnLengths(faired) \subseteq task[r].response.headers
                /\ task[r].fairing = "none" =>
                      /\ task[r].obtained.headers \ OwnLengths(task[r].obtained)
                             \subseteq task[r].response.headers
                      /\ task[r].response.content_length = task[r].obtained.body.size

\* A GET route answered 304 with a header of its own and a body of BodyLen
\* bytes: the response returned has the header, Content-Length BodyLen and
\* no body.
C12_Witness ==
    \E r \in Tasks :
        /\ Returned(r)
        /\ ~task[r].was_head_request
        /\ task[r].source = "route"
        /\ task[r].fairing = "none"
        /\ task[r].obtained.status = NotModified
        /\ task[r].obtained.body = Sized(BodyLen)
        /\ Header("ETag", "v1") \in task[r].response.headers
        /\ task[r].response.content_length = BodyLen
        /\ task[r].response.body.data = "none"

\* ------------------------------------------------------------------- C13
\* C13 (HEAD responses): the response returned for a request that was HEAD
\* when dispatch started has no body, wherever it came from: a route of the
\* first pass, a route of the pass made as GET, a catcher, or the built-in
\* handler.
C13_HeadEmptyBody ==
    \A r \in Tasks :
        (Returned(r) /\ task[r].was_head_request) =>
            /\ task[r].source \in {"route", "catcher", "default"}
            /\ task[r].response.body.data = "none"

\* Two HEAD requests have been answered without a body, one by a GET route
\* on the second pass and one by a catcher.
C13_Witness ==
    \E r \in Tasks : \E q \in Tasks \ {r} :
        /\ Returned(r) /\ task[r].was_head_request
        /\ task[r].source = "route" /\ task[r].pass = 2
        /\ task[r].obtained.body = Sized(BodyLen)
        /\ task[r].response.body.data = "none"
        /\ Returned(q) /\ task[q].was_head_request
        /\ task[q].source = "catcher"
        /\ task[q].obtained.body = Sized(BodyLen)
        /\ task[q].response.body.data = "none"

\* ------------------------------------------------------------------- C14
\* The response has been through dispatch's finalization, and through the
\* upgrade negotiation once it is sent.
Finalized(r) == task[r].pc \in {"done", "sent"}

\* C14 as stated, granted that the response fairings leave the status
\* alone: once finalized, and still after the upgrade negotiation, the
\* response has the status of the response obtained from the route or the
\* catchers.
C14_StatusUnchanged ==
    \A r \in Tasks :
        (Finalized(r) /\ task[r].fairing # "set_status") =>
            task[r].response.status = task[r].obtained.status

\* C14 (amended): the response dispatch returns has the status the response
\* fairings left it with, which is the status obtained from the route or
\* the catchers unless a fairing set another. The upgrade negotiation sets
\* the status to 101 exactly when the request asks for a protocol the
\* response has an I/O handler for, and leaves it alone otherwise.
C14_StatusFrame ==
    \A r \in Tasks :
        LET faired == handle_response(task[r].fairing, task[r].obtained)
            upgraded == request[r].upgrade \cap task[r].obtained.upgrade # {}
        IN  /\ Returned(r) =>
                  /\ task[r].response.status = faired.status
                  /\ task[r].fairing # "set_status" =>
                         task[r].response.status = task[r].obtained.status
            /\ task[r].pc = "sent" =>
                  /\ (task[r].io_handler # "none") <=> upgraded
                  /\ task[r].response.status =
                         IF upgraded THEN SwitchingProtocols ELSE faired.status

\* A route answered 200 with an I/O handler for the protocol the request
\* asked for, and the response sent has status 101.
C14_Witness ==
    \E r \in Tasks :
        /\ task[r].pc = "sent"
        /\ task[r].source = "route"
        /\ task[r].fairing = "none"
        /\ task[r].obtained.status = Ok
        /\ task[r].io_handler = "websocket"
        /\ task[r].response.status = SwitchingProtocols

\* ------------------------------------------------------------------- C15
\* C15 (preprocessing order): for each request the method override and
\* then the request fairings run, once each and in that order; the token
\* exists only once both have run; dispatch starts only by taking the
\* token, and so no route or catcher handler is invoked, and nothing of
\* dispatch has happened, before both have run.
C15_PreprocessOrder ==
    /\ [](\A r \in Tasks :
            /\ task[r].pre \in {<<>>, <<"method_override">>, Preprocessed}
            /\ task[r].token => task[r].pre = Preprocessed /\ task[r].pc = "dispatch"
            /\ task[r].pre # Preprocessed =>
                  /\ task[r].pc \in {"unused", "preprocess", "handle_request"}
                  /\ log[r] = <<>>
                  /\ task[r].pass = 0)
    /\ [][\A r \in Tasks :
            /\ (task[r].pass = 0 /\ task[r].pass' = 1) =>
                  task[r].token /\ ~task[r].token' /\ task[r].pre = Preprocessed
            /\ task[r].pre # task[r].pre' =>
                  \/ task[r].pre = <<>> /\ task[r].pre' = <<"method_override">>
                  \/ task[r].pre = <<"method_override">> /\ task[r].pre' = Preprocessed]_vars

\* A form came in, its method was overridden, the request fairings ran, the
\* token was taken and a route handler has been invoked.
C15_Witness ==
    \E r \in Tasks :
        /\ request[r].content_type = "form"
        /\ task[r].data # <<>>
        /\ task[r].was_head_request
        /\ task[r].pre = Preprocessed
        /\ ~task[r].token
        /\ Len(RouteEntries(r, 2)) = 1

\* ------------------------------------------------------------------- C16
\* The bytes are UTF-8 text: none is "FF", and the two bytes of a two-byte
\* character only come together.
Utf8(p) ==
    \A i \in 1 .. Len(p) :
        /\ p[i] # "FF"
        /\ p[i] = "C3" => i < Len(p) /\ p[i + 1] = "A9"
        /\ p[i] = "A9" => i > 1 /\ p[i - 1] = "C3"

MethodTexts == [PUT |-> Text_PUT, HEAD |-> Text_HEAD, GET |-> Text_GET]

\* The first PeekLen bytes of the body are text whose first field, after
\* any empty ones, is _method=<the text of m>.
FirstFieldNames(data, m) ==
    LET p == SubSeq(data, 1, Min(PeekLen, Len(data)))
        v == MethodTexts[m]
    IN  /\ Utf8(p)
        /\ \E i \in 1 .. Len(p) :
              LET e == i + Len(Text_method) + Len(v)
              IN  /\ \A j \in 1 .. i - 1 : p[j] = "&"
                  /\ e <= Len(p)
                  /\ SubSeq(p, i, e) = Field(Text_method, v)
                  /\ e = Len(p) \/ p[e + 1] = "&"

\* The request preprocess is about to look at is a form whose first field
\* says its method is m.
Overrides(r, m) ==
    /\ request[r].method = "POST"
    /\ request[r].content_type = "form"
    /\ FirstFieldNames(task[r].data, m)

\* C16 (method override): the first step of preprocess sets the method of
\* the request to m when the request is a POST, its content type is that of
\* a form, and the first PeekLen bytes of its body are UTF-8 text whose
\* first field is _method with the name of the method m for value; in every
\* other case it leaves the method as it is; and it never changes anything
\* else of the request.
C16_MethodOverride ==
    [][\A r \in Tasks :
          (task[r].pre = <<>> /\ task[r].pre' = <<"method_override">>) =>
              /\ \A m \in DOMAIN MethodTexts :
                    Overrides(r, m) => request[r].method' = m
              /\ (\A m \in DOMAIN MethodTexts : ~Overrides(r, m)) =>
                    request[r].method' = request[r].method
              /\ request'[r] = [request[r] EXCEPT !.method = request[r].method']]_vars

\* A form longer than PeekLen bytes that starts with an empty field and then
\* _method=PUT has been through the override and its method is PUT.
C16_Witness ==
    \E r \in Tasks :
        /\ task[r].pre # <<>>
        /\ request[r].content_type = "form"
        /\ request[r].method = "PUT"
        /\ Len(task[r].data) > PeekLen
        /\ task[r].data[1] = "&"

\* ------------------------------------------------------------------- C17
\* The catchers registered for a status, the default catcher apart.
Registered(s) == s # Default /\ s \in catchers

\* C17 (catcher selection): a catcher invoked for status s is the catcher
\* registered for s, or the default catcher when none is registered for s.
\* When neither exists no catcher is invoked for s and the built-in
\* handler's response for s is what the escalation returns, at once.
\* Otherwise the response is the invoked catcher's, or, when a catcher
\* invoked for 500 failed, the built-in handler's for 500.
C17_CatcherSelection ==
    \A r \in Tasks :
        LET cs == CatcherEntries(r)
            s == task[r].status
        IN  /\ \A i \in 1 .. Len(cs) :
                  /\ Registered(cs[i].for) => cs[i].id = cs[i].for
                  /\ ~Registered(cs[i].for) => cs[i].id = Default /\ Default \in catchers
            /\ (task[r].pc \in {"finalize", "done"} /\ task[r].source # "route") =>
                  IF ~Registered(s) /\ Default \notin catchers
                  THEN /\ task[r].source = "default"
                       /\ task[r].obtained = default_handler(s)
                       /\ \A i \in 1 .. Len(cs) : cs[i].for # s
                       /\ task[r].lookups = Len(cs) + 1
                  ELSE /\ Len(cs) > 0
                       /\ cs[Len(cs)].for = s
                       /\ task[r].lookups = Len(cs)
                       /\ cs[Len(cs)].result = "Ok" => task[r].source = "catcher"
                       /\ cs[Len(cs)].result # "Ok" =>
                             /\ s = InternalServerError
                             /\ task[r].source = "default"
                             /\ task[r].obtained = default_handler(InternalServerError)

\* With a catcher for 500 and a default catcher registered and none for 404,
\* the default catcher was invoked for 404 and failed, and the catcher for
\* 500 was invoked next.
C17_Witness ==
    \E r \in Tasks :
        LET cs == CatcherEntries(r)
        IN  /\ Returned(r)
            /\ catchers = {InternalServerError, Default}
            /\ Len(cs) = 2
            /\ cs[1].for = NotFound /\ cs[1].id = Default
            /\ cs[2].for = InternalServerError /\ cs[2].id = InternalServerError

\* ------------------------------------------------------------------- C18
\* dispatch_error has been called and has not looked a catcher up yet.
Escalating(r) == task[r].pc = "catch" /\ task[r].lookups = 0

\* C18 (router exhaustion): when dispatch_error is called after a pass in
\* which every candidate forwarded, its status is the status of the last
\* forward; after a pass without candidates it is 404; after an error, the
\* error's status. Its first lookup is for exactly that status, whichever
\* of these it came from.
C18_RouterExhaustion ==
    /\ [](\A r \in Tasks :
            Escalating(r) =>
                LET es == RouteEntries(r, task[r].pass)
                IN  /\ es = <<>> => task[r].status = NotFound
                    /\ es # <<>> =>
                          /\ task[r].status = task[r].last.status
                          /\ task[r].last.result = es[Len(es)].result
                          /\ AllForwarded(es) =>
                                /\ Len(es) = Len(Router_route(es[1].method))
                                /\ task[r].status \in ForwardStatuses
                    /\ request[r].cookies = {})
    /\ [][\A r \in Tasks :
            (Escalating(r) /\ ~Escalating(r)') =>
                /\ task[r].lookups' = 1
                /\ log'[r] # log[r] =>
                      /\ Len(log'[r]) = Len(log[r]) + 1
                      /\ log'[r][Len(log'[r])].handler = "catcher"
                      /\ log'[r][Len(log'[r])].for = task[r].status
                /\ log'[r] = log[r] =>
                      task[r].obtained' = default_handler(task[r].status)]_vars

\* Two candidates forwarded, the last with 403, and dispatch_error has been
\* called with 403.
C18_Witness ==
    \E r \in Tasks :
        LET es == RouteEntries(r, task[r].pass)
        IN  /\ Escalating(r)
            /\ Len(es) = 2
            /\ AllForwarded(es)
            /\ task[r].last.status = Forbidden
            /\ task[r].status = Forbidden

\* ------------------------------------------------------------------- C19
\* The response obtained is a route's: route() returned Success.
Succeeded(r) == task[r].source = "route"

\* C19 (success as is): when route() returns Success, whatever the status
\* of its response, that response is the one finalized, no catcher is
\* looked up or invoked, and the cookie delta is not reset: the step that
\* takes the Success only adds to it, and a cookie the handler added is in
\* the delta at finalization and in the response returned.
C19_SuccessAsIs ==
    /\ [](\A r \in Tasks :
            Succeeded(r) =>
                /\ task[r].lookups = 0
                /\ CatcherEntries(r) = <<>>
                /\ task[r].last.result = "Success"
                /\ task[r].obtained.status = task[r].last.status
                /\ task[r].last.cookie =>
                      /\ task[r].pc = "finalize" => RouteCookie \in request[r].cookies
                      /\ Finalized(r) => RouteCookie \in task[r].response.set_cookie)
    /\ [][\A r \in Tasks :
            (~Succeeded(r) /\ Succeeded(r)') =>
                /\ request[r].cookies \subseteq request'[r].cookies
                /\ task[r].pc' = "finalize"]_vars

\* A route added a cookie and succeeded with status 403, and the response
\* returned is that response with the cookie, no catcher having been
\* looked up.
C19_Witness ==
    \E r \in Tasks :
        /\ Returned(r)
        /\ Succeeded(r)
        /\ task[r].fairing = "none"
        /\ task[r].last.cookie
        /\ task[r].obtained.status = Forbidden
        /\ task[r].response.status = Forbidden
        /\ RouteCookie \in task[r].response.set_cookie
        /\ task[r].lookups = 0

\* ------------------------------------------------------------------- C20
\* The values of the Server headers of a response.
Server(resp) == {h.value : h \in {g \in resp.headers : g.name = "Server"}}

\* C20 (default Server header): when the response fairings set no Server
\* header of their own, the response returned has the Server header it was
\* obtained with from the handler or the catcher, if it had one; else the
\* server's identity, if one is configured; else none.
C20_DefaultServer ==
    \A r \in Tasks :
        (Returned(r) /\ task[r].fairing # "set_header") =>
            IF contains(task[r].obtained.headers, "Server")
            THEN Server(task[r].response) = Server(task[r].obtained)
            ELSE IF config.ident # NoIdent
            THEN Server(task[r].response) = {config.ident}
            ELSE Server(task[r].response) = {}

\* The server identifies itself as Rocket, a catcher answered with a Server
\* header of its own, and the response returned has that header alone.
C20_Witness ==
    \E r \in Tasks :
        /\ Returned(r)
        /\ config.ident = "Rocket"
        /\ task[r].source = "catcher"
        /\ task[r].fairing = "none"
        /\ Server(task[r].obtained) = {"app"}
        /\ Server(task[r].response) = {"app"}


\* ------------------------------------------------------------------- C21
\* The registered routes for method m whose rank is below k.
RankedBelow(m, k) ==
    {i \in 1 .. Len(routes) : routes[i].method = m /\ routes[i].rank < k}

\* C21 (rank ordering with forwarding): in a routing pass the routes are
\* attempted in ascending rank: a route is invoked only after every route
\* of lower rank for the same method has been invoked and has forwarded.
\* When the last route invoked has forwarded and a route is left, the loop
\* goes on with a route of the same or a higher rank; a higher-ranked
\* route that then succeeds gives the response obtained. When a route
\* succeeds no further route is invoked in the dispatch.
C21_RankOrder ==
    \A r \in Tasks : \A p \in 1 .. 2 :
        LET es == RouteEntries(r, p)
            ids(i) == {es[j].id : j \in 1 .. i - 1}
        IN  \A i \in 1 .. Len(es) :
              /\ \A j \in 1 .. i - 1 :
                    /\ routes[es[j].id].rank <= routes[es[i].id].rank
                    /\ es[j].result = "Forward"
              /\ RankedBelow(es[i].method, routes[es[i].id].rank) \subseteq ids(i)
              /\ (es[i].result = "Forward" /\ i = Len(es) /\ task[r].pass = p
                    /\ Len(es) < Len(Router_route(es[i].method))) =>
                    /\ task[r].pc = "route"
                    /\ task[r].candidates # <<>>
                    /\ routes[Head(task[r].candidates)].rank >= routes[es[i].id].rank
                    /\ Head(task[r].candidates) \notin ids(i + 1)
              /\ es[i].result = "Success" =>
                    /\ i = Len(es)
                    /\ task[r].pass = p
                    /\ task[r].source = "route"
                    /\ task[r].obtained.status = task[r].last.status

\* The route of rank 1 forwarded and the route of rank 2, invoked next for
\* the same request, answered 200: its response is the one returned.
C21_Witness ==
    \E r \in Tasks :
        LET es == RouteEntries(r, 1)
        IN  /\ Returned(r)
            /\ Len(es) = 2
            /\ routes[es[1].id].rank = 1
            /\ routes[es[2].id].rank = 2
            /\ es[1].result = "Forward"
            /\ es[2].result = "Success"
            /\ task[r].obtained.status = Ok
            /\ task[r].response.status = Ok

\* ------------------------------------------------------------------- C22
\* C22 (report): Error::report returns ExitCode::SUCCESS for an Ok result;
\* for an Err result it logs the error and returns ExitCode::FAILURE.
C22_ReportExitCode ==
    launch.pc = "reported" =>
        IF launch.result.ok
        THEN launch.exit = ExitCode_SUCCESS
        ELSE /\ launch.exit = ExitCode_FAILURE
             /\ Len(launch.trace) >= 2
             /\ launch.trace[1] = Event("ERROR", "launch failure")

\* ------------------------------------------------------------------- C23
\* What the first n rewriters make of the request: the first is given the
\* request's path as a File, each of the others what the one before returned.
RECURSIVE Rewritten(_, _, _)
Rewritten(rws, n, uri) ==
    IF n = 0
    THEN IF uri.valid THEN Some(File(Path(FALSE, uri.segments, FALSE))) ELSE None
    ELSE rewrite(rws[n], Rewritten(rws, n - 1, uri), uri)

\* C23 (FileServer outcomes): the handler never returns Outcome::Error. It
\* applies its rewriters in registration order, each to the result of the
\* one before, and with the final result: None forwards with 404; a File
\* succeeds with the file when its path is a regular file that opens, and
\* forwards with 404 otherwise; a Redirect succeeds with the redirect when
\* a response can be made of it, and forwards with 500 otherwise.
C23_FileServerOutcome ==
    /\ files.pc = "rewriting" =>
          files.response = Rewritten(files.rewrites, files.i - 1, files.uri)
    /\ files.pc = "returned" =>
          LET final == Rewritten(files.rewrites, Len(files.rewrites), files.uri)
              path == strip_trailing_slash(final.value.path)
          IN  /\ files.outcome.kind \in {"Success", "Forward"}
              /\ ~final.some => files.outcome = Forward(NotFound)
              /\ (final.some /\ final.value.kind = "File") =>
                    IF is_file(path) /\ opens(path)
                    THEN files.outcome = Success(FileContents(path))
                    ELSE files.outcome = Forward(NotFound)
              /\ (final.some /\ final.value.kind = "Redirect") =>
                    IF final.value.valid
                    THEN files.outcome = Success(Redirection)
                    ELSE files.outcome = Forward(InternalServerError)

\* The second of two rewriters replaced the file the first had rooted by a
\* redirect no response can be made of, and the handler forwarded with 500.
C23_Witness ==
    /\ files.pc = "returned"
    /\ files.rewrites = <<"dir_root", "bad_redirect">>
    /\ files.uri.segments = <<"a.txt">>
    /\ files.outcome = Forward(InternalServerError)

\* ------------------------------------------------------------------- C24
\* The step made a catcher of request r fail: it returned a failure or it
\* panicked, when its future was created or when it was polled.
CatcherFailedNow(r) ==
    /\ log'[r] # log[r]
    /\ log'[r][Len(log'[r])].handler = "catcher"
    /\ log'[r][Len(log'[r])].result \in {"Err", "panic"}

\* C24 (escalation steps): when the catcher invoked for a status other
\* than 500 fails or panics, dispatch_error goes on with status 500,
\* whatever status the catcher failed with, and the next lookup and the
\* next catcher invoked are for 500; when the catcher invoked for 500 fails
\* or panics, the response obtained is the built-in handler's for 500 and
\* no catcher is looked up again.
C24_EscalationSteps ==
    /\ [][\A r \in Tasks :
            CatcherFailedNow(r) =>
                LET failed == log'[r][Len(log'[r])] IN
                IF failed.for # InternalServerError
                THEN /\ task'[r].pc = "catch"
                     /\ task'[r].status = InternalServerError
                ELSE /\ task'[r].pc = "finalize"
                     /\ task'[r].source = "default"
                     /\ task'[r].obtained = default_handler(InternalServerError)]_vars
    /\ [][\A r \in Tasks :
            (task[r].pc = "catch" /\ task[r].lookups >= 1) =>
                /\ task'[r].lookups \in {task[r].lookups, 2}
                /\ log'[r] # log[r] => log'[r][Len(log'[r])].for = InternalServerError]_vars
    /\ [](\A r \in Tasks :
            LET cs == CatcherEntries(r) IN
            /\ \A i \in 1 .. Len(cs) - 1 :
                  /\ cs[i].for # InternalServerError
                  /\ cs[i].result \in {"Err", "panic"}
                  /\ cs[i + 1].for = InternalServerError
            /\ (task[r].pc \in {"finalize", "done", "sent"} /\ cs # <<>>
                  /\ cs[Len(cs)].result \in {"Err", "panic"}) =>
                  /\ task[r].lookups <= 2
                  /\ task[r].obtained = default_handler(InternalServerError))

\* The catcher invoked for 404 has failed with status 403, and status 500
\* is the one looked up next.
C24_Witness ==
    \E r \in Tasks :
        LET cs == CatcherEntries(r)
        IN  /\ task[r].pc = "catch"
            /\ task[r].lookups = 1
            /\ Len(cs) = 1
            /\ cs[1].for = NotFound
            /\ cs[1].result = "Err"
            /\ task[r].last.status = Forbidden
            /\ task[r].status = InternalServerError

\* ------------------------------------------------------------------- C25
\* The order of the finalization steps.
FinalizationOrder ==
    <<"cookies", "server", "response_fairings", "strip_body", "content_length", "alt_svc">>

\* C25 (finalization order): whether the response was obtained from a route,
\* from a catcher or from the built-in handler, dispatch finalizes it in one
\* order: cookie delta, default Server header, response fairings, body strip
\* for HEAD or 304, the 204 / Content-Length rule, Alt-Svc, each step on the
\* response the step before left. The response fairings run once, on the
\* response as obtained but for the cookies and the Server header: its body
\* is not stripped yet and no Content-Length is set. Nothing is finalized
\* before a response is obtained, and nothing twice.
C25_FinalizationOrder ==
    /\ [](\A r \in Tasks :
            /\ ~Finalized(r) => task[r].steps = <<>>
            /\ Finalized(r) =>
                  LET st == task[r].steps
                      was_head == task[r].was_head_request
                  IN  /\ task[r].source \in {"route", "catcher", "default"}
                      /\ [i \in 1 .. Len(st) |-> st[i].step] = FinalizationOrder
                      /\ st[1].response =
                            adjoin_cookies(task[r].obtained, st[1].response.set_cookie)
                      /\ st[2].response = default_server(st[1].response)
                      /\ st[3].response = handle_response(task[r].fairing, st[2].response)
                      /\ st[4].response = strip_if_head_or_not_modified(st[3].response, was_head)
                      /\ st[5].response = set_content_length(st[4].response)
                      /\ st[6].response = set_alt_svc(st[5].response)
                      /\ st[2].response.body = task[r].obtained.body
                      /\ st[2].response.content_length = NoSize
                      /\ Returned(r) => task[r].response = st[6].response)
    /\ [][\A r \in Tasks :
            task'[r].steps # task[r].steps =>
                task[r].pc = "finalize" /\ Returned(r)']_vars

\* A HEAD request answered by the GET route, which added a cookie; the
\* server advertises an alternative service and a response fairing set the
\* Server header: the response has the cookie, the fairing's Server header,
\* no body, the Content-Length of the route's body, and Alt-Svc.
C25_Witness ==
    \E r \in Tasks :
        /\ Returned(r)
        /\ task[r].was_head_request
        /\ task[r].source = "route"
        /\ task[r].fairing = "set_header"
        /\ RouteCookie \in task[r].response.set_cookie
        /\ Server(task[r].response) = {"fairing"}
        /\ task[r].steps[2].response.body.data = "bytes"
        /\ task[r].response.body.data = "none"
        /\ task[r].response.content_length = BodyLen
        /\ contains(task[r].response.headers, "Alt-Svc")

\* ------------------------------------------------------------------- C26
\* The route handlers invoked so far for request r, over both passes.
Attempts(r) == SelectSeq(log[r], LAMBDA e : e.handler = "route")

\* C26 (attached route): the request's route slot is written once for each
\* routing attempt, before the candidate's handler is invoked: it names no
\* route before the first attempt and from then on the route attempted
\* last, so while a route handler runs it names that handler's route. Each
\* further attempt, after a forward or in the HEAD retry, overwrites it;
\* nothing else writes it, the catchers and the finalization included.
C26_AttachedRoute ==
    /\ [](\A r \in Tasks :
            LET as == Attempts(r) IN
            /\ request[r].route = IF as = <<>> THEN NoRoute ELSE as[Len(as)].id
            /\ task[r].pc = "handling" =>
                  /\ log[r][Len(log[r])].handler = "route"
                  /\ log[r][Len(log[r])].result = "pending"
                  /\ request[r].route = log[r][Len(log[r])].id)
    /\ [][\A r \in Tasks :
            /\ request'[r].route # request[r].route =>
                  /\ task[r].pc = "route"
                  /\ Len(Attempts(r)') = Len(Attempts(r)) + 1
                  /\ request'[r].route = Head(task[r].candidates)
            /\ Len(Attempts(r)') > Len(Attempts(r)) =>
                  /\ request'[r].route = Head(task[r].candidates)
                  /\ request'[r].route # request[r].route
            /\ task[r].pc \in {"catch", "catching", "finalize", "done"} =>
                  request'[r].route = request[r].route]_vars

\* A HEAD request whose HEAD route forwarded is in the hands of the GET
\* route's handler in the retry: the slot names the GET route.
C26_Witness ==
    \E r \in Tasks :
        LET as == Attempts(r)
        IN  /\ task[r].pc = "handling"
            /\ task[r].pass = 2
            /\ Len(as) = 2
            /\ as[1].result = "Forward"
            /\ routes[as[1].id].method = "HEAD"
            /\ routes[as[2].id].method = "GET"
            /\ request[r].route = as[2].id

\* ------------------------------------------------------------------- C27
\* The body a routing attempt is given when it follows tsk: the body the
\* last Forward returned, and the request's own body before any Forward.
LastReturned(tsk) == IF tsk.returned.some THEN tsk.returned ELSE Some(Data(FALSE))

\* The handlers of a task that hold a body: the invocations not yet ended.
Holding(r) == {k \in 1..Len(log[r]) : log[r][k].result = "pending"}

\* C27 (body hand-over): the first candidate of a request is given the
\* request's body, and every later one, the first candidate of the HEAD
\* retry included, is given exactly the body returned in the Forward before
\* it: the previous candidate's, or the one the first pass ended with.
\* While a handler holds the body, route() holds none and no other handler
\* of the request is running; a Forward puts the body back in route()'s
\* hands, a Success or an Error hands nothing back.
C27_BodyHandOver ==
    /\ [](\A r \in Tasks :
            /\ ~(task[r].body.some /\ task[r].given.some)
            /\ Cardinality(Holding(r)) <= 1
            /\ task[r].given.some <=> task[r].pc = "handling"
            /\ task[r].given.some => Holding(r) = {Len(log[r])}
            /\ task[r].pc = "route" => task[r].body = LastReturned(task[r]))
    /\ [][\A r \in Tasks :
            /\ (task[r].pc = "route" /\ task'[r].pc = "handling") =>
                  task'[r].given = LastReturned(task[r])
            /\ (task[r].pc = "handling" /\ task'[r].pc = "route") =>
                  /\ task'[r].returned.some
                  /\ task'[r].body = task'[r].returned
            /\ (task[r].pass = 1 /\ task'[r].pass = 2) =>
                  /\ task'[r].body = task'[r].returned
                  /\ task[r].pc = "route" => task'[r].returned = task[r].body]_vars

\* A HEAD request with a body, whose HEAD route peeked at the body and
\* forwarded, and whose first GET route forwarded too, is in the hands of
\* the second GET route: the handler holds the buffered body.
C27_Witness ==
    \E r \in Tasks :
        LET as == Attempts(r)
        IN  /\ task[r].pc = "handling"
            /\ task[r].pass = 2
            /\ Len(as) = 3
            /\ as[1].result = "Forward"
            /\ as[2].result = "Forward"
            /\ routes[as[1].id].method = "HEAD"
            /\ task[r].given = Some(Data(TRUE))
            /\ task[r].body = None

\* ------------------------------------------------------------------- C28
\* The permit of c's Connection is available again: Drop has dropped it.
Released(c) == pool.client[c].pc = "dropped" /\ ~pool.client[c].permit

\* C28 (permit after connection): when a Connection is dropped, its permit
\* is back in the semaphore only once the database connection has been
\* taken out of the slot and dropped, whenever the blocking task of Drop
\* runs.
C28_PermitAfterConnection ==
    \A c \in Clients : Released(c) => ~pool.client[c].slot

\* ------------------------------------------------------------------- C29
\* The callers that hold a permit: a get() past the semaphore, a Connection,
\* a Drop before its last statement.
PermitsHeld == Cardinality({c \in Clients : pool.client[c].permit})
Connections == {c \in Clients : pool.client[c].pc = "alive"}

\* C29 (pool bound): the Connections never outnumber pool_size and each of
\* them holds a permit; the permits held, by Connections, by get() calls
\* past the semaphore and by drops in progress, and the permits available
\* always add up to pool_size; a get() waits for a permit until the
\* configured timeout at the latest.
C29_PoolBound ==
    /\ Cardinality(Connections) <= pool.size
    /\ \A c \in Connections : pool.client[c].permit
    /\ pool.permits >= 0
    /\ PermitsHeld + pool.permits = pool.size
    /\ \A c \in Clients : pool.client[c].waited <= pool.timeout

\* Every permit is held by a Connection, and a get() that found none has
\* waited until the timeout.
C29_Witness ==
    /\ pool.permits = 0
    /\ Cardinality(Connections) = pool.size
    /\ \E c \in Clients :
          /\ pool.client[c].pc = "acquire"
          /\ pool.client[c].waited = pool.timeout

\* ------------------------------------------------------------------- C30
\* The closures of run() that are at work on c's connection.
Running(c) == {j \in Jobs : pool.client[c].job[j].pc = "running"}

\* C30 (run is exclusive): at most one closure is at work on a Connection's
\* connection at a time, and it holds the mutex: a second closure, and the
\* task of Drop, wait for it. While the Connection is alive the slot holds
\* the connection, so a closure that gets the mutex finds it; only a closure
\* that outlives its Connection, its future having been dropped, can find
\* the slot empty.
C30_RunExclusive ==
    /\ [](\A c \in Clients :
            /\ Cardinality(Running(c)) <= 1
            /\ \A j \in Running(c) : pool.client[c].lock = j /\ pool.client[c].slot
            /\ pool.client[c].pc = "alive" => pool.client[c].slot)
    /\ [][\A c \in Clients : \A j \in Jobs :
            (pool.client[c].job[j].pc = "spawned" /\ pool'.client[c].job[j].pc = "none") =>
                /\ ~pool.client[c].slot
                /\ pool.client[c].pc # "alive"]_vars

\* Two closures were given to run() on a live Connection: one is at work,
\* the other one waits for the mutex.
C30_Witness ==
    \E c \in Clients :
        /\ pool.client[c].pc = "alive"
        /\ pool.client[c].job["first"].pc = "running"
        /\ pool.client[c].job["second"].pc = "spawned"
        /\ pool.client[c].job["second"].awaited

\* ------------------------------------------------------------------- C31
\* The outcome of the request guard of caller c.
GuardOutcome(c) == pool.client[c].outcome

\* C31 (the Connection guard): the request guard never forwards. With the
\* pool attached its outcome is Success with the Connection when get()
\* returned one, and Error with 503 Service Unavailable when get() returned
\* None, after a timeout on the semaphore or a failure of the pool; without
\* the pool's fairing it is Error with 500 Internal Server Error, and get()
\* is not called.
C31_GuardOutcome ==
    /\ [](\A c \in Clients :
            LET o == GuardOutcome(c) IN
            /\ o.kind \in {"none", "pending", "Success", "Error"}
            /\ o.kind = "pending" => pool.client[c].pc \in {"acquire", "checkout"}
            /\ o.kind = "Success" =>
                  /\ pool.size > 0
                  /\ pool.client[c].pc = "alive"
                  /\ o.value = c
            /\ o.kind = "Error" =>
                  /\ pool.client[c].pc = "idle"
                  /\ o.status = IF pool.size > 0
                                THEN ServiceUnavailable
                                ELSE InternalServerError)
    /\ [][\A c \in Clients :
            /\ (GuardOutcome(c) = Pending /\ GuardOutcome(c)' # Pending) =>
                  GuardOutcome(c)' = IF pool'.client[c].pc = "alive"
                                     THEN [kind |-> "Success", value |-> c]
                                     ELSE Error(ServiceUnavailable)
            /\ (pool.size = 0 /\ pool'.client[c] # pool.client[c]) =>
                  /\ GuardOutcome(c)' = Error(InternalServerError)
                  /\ pool'.client[c].pc = "idle"]_vars

\* Of two guards on a pool of one connection, one got the Connection and
\* the other one, whose get() timed out, failed with 503.
C31_Witness ==
    /\ pool.size = 1
    /\ \E c, d \in Clients :
          /\ GuardOutcome(c).kind = "Success"
          /\ GuardOutcome(d) = Error(ServiceUnavailable)

\* ------------------------------------------------------------------- C32
\* dispatch_error is at work on request r with the status it was called with.
dispatch_error_at_work(r) == task[r].pc \in {"catch", "catching"}

\* C32 (the loop ends): the loop of dispatch_error runs at most twice,
\* whatever status it starts with, and a second time only after the catcher
\* of a status other than 500 failed. Started with 500 it runs once: it
\* invokes at most one catcher and returns that catcher's response or,
\* when the catcher failed or panicked, the built-in response for 500 (as
\* it does when no catcher is found for 500).
C32_LoopEnds ==
    /\ [](\A r \in Tasks :
            LET cs == CatcherEntries(r) IN
            /\ task[r].lookups <= 2
            /\ Len(cs) <= task[r].lookups
            /\ task[r].lookups = 2 =>
                  /\ cs # <<>>
                  /\ cs[1].for # InternalServerError
                  /\ cs[1].result \in {"Err", "panic"}
            /\ (cs # <<>> /\ cs[1].for = InternalServerError) =>
                  /\ Len(cs) = 1
                  /\ task[r].lookups = 1)
    /\ [][\A r \in Tasks :
            (dispatch_error_at_work(r) /\ task[r].status = InternalServerError
                /\ task'[r] # task[r]) =>
                /\ task'[r].lookups = IF task[r].pc = "catch"
                                      THEN task[r].lookups + 1
                                      ELSE task[r].lookups
                /\ \/ task[r].pc = "catch" /\ task'[r].pc = "catching"
                   \/ /\ task'[r].pc = "finalize"
                      /\ \/ /\ task'[r].source = "catcher"
                            /\ task'[r].last.result = "Ok"
                            /\ task'[r].obtained.status = task'[r].last.status
                         \/ /\ task'[r].source = "default"
                            /\ task'[r].obtained = default_handler(InternalServerError)]_vars

\* A route handler panicked, dispatch_error was called with 500, and the
\* catcher registered for 500 failed: after that one invocation the
\* built-in response for 500 is the one obtained.
C32_Witness ==
    \E r \in Tasks :
        LET cs == CatcherEntries(r)
        IN  /\ task[r].pc = "finalize"
            /\ task[r].lookups = 1
            /\ Len(cs) = 1
            /\ cs[1].for = InternalServerError
            /\ cs[1].result = "Err"
            /\ RoutePanicked(r)
            /\ task[r].source = "default"
            /\ task[r].obtained = default_handler(InternalServerError)

routing(r) == task[r].pc \in {"route", "handling"}

C35_HeadStatusDropped ==
    /\ [][\A r \in Tasks :
            (task[r].pass = 1 /\ task'[r].pass = 2) =>
                /\ task[r].was_head_request
                /\ request'[r].method = "GET"
                /\ task'[r].status = NotFound]_vars
    /\ [](\A r \in Tasks :
            (Escalating(r) /\ task[r].pass = 2) =>
                LET hs == RouteEntries(r, 1)
                    gs == RouteEntries(r, 2)
                IN  /\ AllForwarded(hs)
                    /\ gs = <<>> => task[r].status = NotFound
                    /\ gs # <<>> =>
                          /\ gs[Len(gs)].result = task[r].last.result
                          /\ task[r].status = task[r].last.status)

\* A HEAD request: its HEAD route forwarded with 403, no GET route matched
\* in the retry, and dispatch_error has been called with 404.
C35_Witness ==
    \E r \in Tasks :
        /\ Escalating(r)
        /\ task[r].pass = 2
        /\ Len(RouteEntries(r, 1)) >= 1
        /\ RouteEntries(r, 2) = <<>>
        /\ task[r].last.result = "Forward"
        /\ task[r].last.status = Forbidden
        /\ task[r].status = NotFound

\* ------------------------------------------------------------------- C36
\* Every catcher invoked so far for request r failed or panicked.
AllFailed(cs) == \A i \in 1 .. Len(cs) : cs[i].result \in {"Err", "panic"}

\* C36 (a failing default catcher runs twice): with a default catcher as the
\* only catcher registered, failing at each invocation, a dispatch_error
\* that starts with a status other than 500 invokes it twice, for that
\* status and then for 500, and returns the built-in response for 500;
\* started with 500 it invokes it once. The second lookup finds the same
\* catcher again.
C36_DefaultCatcherTwice ==
    /\ [](\A r \in Tasks :
            LET cs == CatcherEntries(r) IN
            (catchers = {Default} /\ cs # <<>> /\ AllFailed(cs)) =>
                /\ \A i \in 1 .. Len(cs) : cs[i].id = Default
                /\ task[r].pc \in {"finalize", "done"} =>
                      /\ Len(cs) = IF cs[1].for = InternalServerError THEN 1 ELSE 2
                      /\ cs[Len(cs)].for = InternalServerError
                      /\ task[r].lookups = Len(cs)
                      /\ task[r].source = "default"
                      /\ task[r].obtained = default_handler(InternalServerError)
                /\ task[r].pc = "catch" =>
                      /\ Len(cs) = 1
                      /\ cs[1].for # InternalServerError
                      /\ task[r].status = InternalServerError
                      /\ Router_catch(task[r].status) = cs[1].id)
    /\ [][\A r \in Tasks :
            (catchers = {Default} /\ task[r].pc = "catch" /\ task'[r] # task[r]) =>
                /\ Len(log'[r]) = Len(log[r]) + 1
                /\ log'[r][Len(log'[r])].handler = "catcher"
                /\ log'[r][Len(log'[r])].id = Default
                /\ log'[r][Len(log'[r])].for = task[r].status]_vars

\* The default catcher, the only one registered, failed for 404 and failed
\* again for 500, and the built-in response for 500 has been returned.
C36_Witness ==
    \E r \in Tasks :
        LET cs == CatcherEntries(r)
        IN  /\ catchers = {Default}
            /\ Returned(r)
            /\ Len(cs) = 2
            /\ AllFailed(cs)
            /\ cs[1].id = Default /\ cs[1].for = NotFound
            /\ cs[2].id = Default /\ cs[2].for = InternalServerError
            /\ task[r].source = "default"
            /\ task[r].response.status = InternalServerError

\* ------------------------------------------------------------------- C37
\* The cookie delta as it was before the response fairings ran: they add
\* their own cookie and nothing else does.
DeltaBeforeFairings(r) == request[r].cookies \ {FairingCookie}

C38_ContentLength ==
    \A r \in Tasks :
        Returned(r) =>
            LET before == task[r].steps[4].response
                after == task[r].response
            IN  /\ task[r].steps[4].step = "strip_body"
                /\ after.status = before.status
                /\ (before.status # NoContent /\ before.body.size # NoSize) =>
                      /\ after.content_length = before.body.size
                      /\ OwnLengths(after) = {}
                /\ before.body.size = NoSize =>
                      /\ after.content_length = NoSize
                      /\ OwnLengths(after) = OwnLengths(before)

\* A route answered 200 with a body of BodyLen bytes and a Content-Length of
\* its own, a response fairing wrote the header again, and the response
\* returned has Content-Length BodyLen only.
C38_Witness ==
    \E r \in Tasks :
        /\ Returned(r)
        /\ task[r].source = "route"
        /\ task[r].fairing = "set_length"
        /\ task[r].obtained.status = Ok
        /\ task[r].obtained.body = Sized(BodyLen)
        /\ OwnLengths(task[r].obtained) = {Header("Content-Length", OwnLength)}
        /\ OwnLengths(task[r].steps[3].response) = {Header("Content-Length", OwnLength)}
        /\ task[r].response.content_length = BodyLen
        /\ OwnLengths(task[r].response) = {}

\* ------------------------------------------------------------------- C39
\* This step ends c's call of get() with None: at the semaphore, by the
\* timeout, or past it, by the failure of pool.get_timeout.
FailedGet(c) ==
    /\ pool.client[c].pc \in {"acquire", "checkout"}
    /\ pool'.client[c].pc = "idle"

\* C39 (no permit leaked): a get() that times out at the semaphore held no
\* permit and leaves the available permits as they are; a get() whose
\* pool.get_timeout fails held one and gives it back; either way the caller
\* holds no permit afterwards, and the permits held and available still add
\* up to pool_size, so that the call as a whole has taken none.
C39_NoPermitLeak ==
    [][\A c \in Clients :
          FailedGet(c) =>
              /\ pool.client[c].permit <=> pool.client[c].pc = "checkout"
              /\ ~pool'.client[c].permit
              /\ pool'.permits = pool.permits + (IF pool.client[c].permit THEN 1 ELSE 0)
              /\ Cardinality({d \in Clients : pool'.client[d].permit}) + pool'.permits
                     = pool.size]_vars

\* A request guard's get() has failed, the caller holds no permit, and every
\* permit of the pool is available.
C39_Witness ==
    \E c \in Clients :
        /\ pool.size > 0
        /\ pool.client[c].pc = "idle"
        /\ pool.client[c].outcome = Error(ServiceUnavailable)
        /\ ~pool.client[c].permit
        /\ pool.permits = pool.size
====
